---- MODULE Spec2Model ----
(***************************************************************************)
(* Hwtr: HMAC web tokens (hwt.signature.keyid.exp.format.payload).         *)
(*                                                                         *)
(* Strings are sequences of character codes.  Codes 0..63 are the          *)
(* base64url alphabet in its own order (A-Z, a-z, 0-9, '-', '_'); the      *)
(* other characters a token can hold get the codes named below.  Byte      *)
(* buffers (Uint8Array) are sequences over 0..255.                         *)
(***************************************************************************)
EXTENDS Integers, Sequences, FiniteSets, TLC

\* ---------------------------------------------------------------- characters

\* '.', the token field separator
Dot == 64
\* '+' and '/', the standard base64 spellings of '-' and '_'
Plus == 65
Slash == 66
\* '=', base64 padding
Pad == 67
\* '!', a character of no base64 alphabet
Bang == 68

Chars == 0..68

\* "hwt"
Prefix == <<33, 48, 45>>
\* "j" and "jx", the registered codec names
FmtJ == <<35>>
FmtJX == <<35, 49>>
\* "zz", a name no codec is registered under
FmtZZ == <<51, 51>>
\* "key1", "key2", "fallback", "current"
Key1 == <<36, 30, 50, 53>>
Key2 == <<36, 30, 50, 54>>
FallbackId == <<31, 26, 37, 37, 27, 26, 28, 36>>
DotId == <<36, 30, 50, 64, 54>>
CurrentId == <<28, 46, 43, 43, 30, 39, 45>>

\* UTF-8 byte of a character (all characters here are ASCII)
Ascii(c) ==
    IF c < 26 THEN 65 + c
    ELSE IF c < 52 THEN 97 + (c - 26)
    ELSE IF c < 62 THEN 48 + (c - 52)
    ELSE IF c = 62 THEN 45
    ELSE IF c = 63 THEN 95
    ELSE IF c = Dot THEN 46
    ELSE IF c = Plus THEN 43
    ELSE IF c = Slash THEN 47
    ELSE IF c = Pad THEN 61
    ELSE 33

\* TextEncoder.encode on a string of the characters above
stringToBuffer(str) == [i \in 1..Len(str) |-> Ascii(str[i])]

Min(a, b) == IF a < b THEN a ELSE b
Max(a, b) == IF a < b THEN b ELSE a

\* ---------------------------------------------------------------- base64url

\* btoa(...) with '+' -> '-', '/' -> '_' and '=' removed
bufferToBase64Url(buffer) ==
    LET n == Len(buffer)
        m == (n \div 3) * 4 + (IF n % 3 = 0 THEN 0 ELSE (n % 3) + 1)
        B(k) == IF k <= n THEN buffer[k] ELSE 0
    IN [j \in 1..m |->
          LET g == (j - 1) \div 4
              r == (j - 1) % 4
              b1 == B(3 * g + 1)
              b2 == B(3 * g + 2)
              b3 == B(3 * g + 3)
          IN  IF r = 0 THEN b1 \div 4
              ELSE IF r = 1 THEN (b1 % 4) * 16 + (b2 \div 16)
              ELSE IF r = 2 THEN (b2 % 16) * 4 + (b3 \div 64)
              ELSE b3 % 64]

\* the sextet atob reads for a character, after '-' -> '+' and '_' -> '/';
\* -1 for '=', -2 for a character atob rejects
Sextet(c) ==
    IF c < 64 THEN c
    ELSE IF c = Plus THEN 62
    ELSE IF c = Slash THEN 63
    ELSE IF c = Pad THEN -1
    ELSE -2

\* atob (forgiving-base64 decode) on the sextets of a string: the byte
\* sequence, or the failure value <<-1>> where atob throws
atob(sx) ==
    LET n0 == Len(sx)
        trail == IF n0 % 4 # 0 THEN 0
                 ELSE IF n0 >= 2 /\ sx[n0] = -1 /\ sx[n0 - 1] = -1 THEN 2
                 ELSE IF n0 >= 1 /\ sx[n0] = -1 THEN 1
                 ELSE 0
        n == n0 - trail
        nb == (n \div 4) * 3 + (IF n % 4 = 0 THEN 0 ELSE (n % 4) - 1)
        S(k) == IF k <= n THEN sx[k] ELSE 0
    IN  IF n % 4 = 1 \/ (\E k \in 1..n : sx[k] < 0)
        THEN <<-1>>
        ELSE [j \in 1..nb |->
                LET g == (j - 1) \div 3
                    r == (j - 1) % 3
                    s1 == S(4 * g + 1)
                    s2 == S(4 * g + 2)
                    s3 == S(4 * g + 3)
                    s4 == S(4 * g + 4)
                IN  IF r = 0 THEN s1 * 4 + (s2 \div 16)
                    ELSE IF r = 1 THEN (s2 % 16) * 16 + (s3 \div 4)
                    ELSE (s3 % 4) * 64 + s4]

\* the shared empty array returned when decoding fails
emptyArray == << >>

base64urlToUint8Array(base64url) ==
    LET n == Len(base64url)
        paddingNeeded == (4 - (n % 4)) % 4
        base64 == [k \in 1..(n + paddingNeeded) |->
                      IF k <= n THEN Sextet(base64url[k]) ELSE -1]
        bytes == atob(base64)
    IN  IF bytes = <<-1>> THEN emptyArray ELSE bytes

\* both operands are strings wherever the engine calls it
timingSafeEqual(expected, actual) ==
    LET a == base64urlToUint8Array(expected)
        b == base64urlToUint8Array(actual)
    IN  IF Len(a) # Len(b) THEN FALSE
        ELSE \A i \in 1..Len(a) : a[i] = b[i]

\* a[i] ^ b[i] and result | x on numbers of eight bits
RECURSIVE Xor(_, _)
Xor(x, y) ==
    IF x = 0 /\ y = 0 THEN 0
    ELSE (((x % 2) + (y % 2)) % 2) + 2 * Xor(x \div 2, y \div 2)

RECURSIVE Or(_, _)
Or(x, y) ==
    IF x = 0 /\ y = 0 THEN 0
    ELSE (IF x % 2 = 1 \/ y % 2 = 1 THEN 1 ELSE 0) + 2 * Or(x \div 2, y \div 2)

\* the loop of timingSafeEqual from index i on, result being what it has
\* gathered: what it ends with and how many times its body ran
RECURSIVE Accumulate(_, _, _, _)
Accumulate(a, b, i, result) ==
    IF i > Len(a) THEN [result |-> result, steps |-> 0]
    ELSE LET rest == Accumulate(a, b, i + 1, Or(result, Xor(a[i], b[i])))
         IN  [rest EXCEPT !.steps = @ + 1]

\* the loop as it would be if it left at the first pair that differs
RECURSIVE Accumulate_leaving(_, _, _, _)
Accumulate_leaving(a, b, i, result) ==
    IF i > Len(a) THEN [result |-> result, steps |-> 0]
    ELSE IF a[i] # b[i] THEN [result |-> 1, steps |-> 1]
    ELSE LET rest == Accumulate_leaving(a, b, i + 1, result)
         IN  [rest EXCEPT !.steps = @ + 1]

\* an operand of timingSafeEqual: a string, or bytes (a Uint8Array)
StringOperand(v) == [str |-> TRUE, v |-> v]
BytesOperand(v) == [str |-> FALSE, v |-> v]

\* typeof x === 'string' ? base64urlToUint8Array(x) : x
Operand(x) == IF x.str THEN base64urlToUint8Array(x.v) ELSE x.v

\* the comparison as it would be with a loop that leaves early
timingSafeEqualOf_leaving(expected, actual) ==
    LET a == Operand(expected)
        b == Operand(actual)
        loop == Accumulate_leaving(a, b, 1, 0)
    IN  IF Len(a) # Len(b) THEN [out |-> FALSE, steps |-> 0]
        ELSE [out |-> loop.result = 0, steps |-> loop.steps]

\* timingSafeEqual(expected, actual) for operands of either kind: what it
\* returns and how many byte pairs it went through
timingSafeEqualOf(expected, actual) ==
    LET a == Operand(expected)
        b == Operand(actual)
        loop == Accumulate(a, b, 1, 0)
    IN  IF Len(a) # Len(b) THEN [out |-> FALSE, steps |-> 0]
        ELSE [out |-> loop.result = 0, steps |-> loop.steps]

\* ---------------------------------------------------------------- strings

\* Array.prototype.join(separator) on a list of strings
RECURSIVE Join(_)
Join(parts) ==
    IF Len(parts) = 0 THEN << >>
    ELSE IF Len(parts) = 1 THEN parts[1]
    ELSE parts[1] \o <<Dot>> \o Join(Tail(parts))

\* String.prototype.split(separator): the fields between the dots, in order
Split(str) ==
    LET n == Len(str)
        dots == {i \in 1..n : str[i] = Dot}
        nf == Cardinality(dots) + 1
        \* position of the k-th dot; 0 before the first field, n + 1 after the last
        DotAt(k) == IF k = 0 THEN 0
                    ELSE IF k = nf THEN n + 1
                    ELSE CHOOSE p \in dots : Cardinality({q \in dots : q < p}) = k - 1
    IN  [k \in 1..nf |-> SubSeq(str, DotAt(k - 1) + 1, DotAt(k) - 1)]

\* String(n) for a non-negative integer
RECURSIVE ToDecimal(_)
ToDecimal(n) ==
    IF n < 10 THEN <<52 + n>>
    ELSE Append(ToDecimal(n \div 10), 52 + (n % 10))

\* String(x) for the number x = n + f/10, n >= 0
NumberText(x) ==
    IF x.f = 0 THEN ToDecimal(x.n) ELSE ToDecimal(x.n) \o <<Dot, 52 + x.f>>

IsDigits(str) == Len(str) > 0 /\ \A i \in 1..Len(str) : str[i] \in 52..61

RECURSIVE DecimalValue(_)
DecimalValue(str) ==
    IF Len(str) = 0 THEN 0
    ELSE 10 * DecimalValue(SubSeq(str, 1, Len(str) - 1)) + (str[Len(str)] - 52)

\* Number(val) || 0 on a token field: the value of decimal digit text, 0 for
\* the empty string and for text Number() reads as NaN; digit text beyond ten
\* digits, or ten digits starting above '1', is read as the largest value
\* the model's integers hold (a time far in the future)
NumberOrZero(val) ==
    IF ~IsDigits(val) THEN 0
    ELSE IF Len(val) > 10 \/ (Len(val) = 10 /\ val[1] > 53) THEN 2147483647
    ELSE DecimalValue(val)

\* ---------------------------------------------------------------- HMAC

\* base64url length of a full HMAC: SHA-256 = 43, SHA-384 = 64, SHA-512 = 86;
\* with the minimum length a signature may be cut to
supports == << <<"SHA-256", 22, 43>>, <<"SHA-384", 32, 64>>, <<"SHA-512", 43, 86>> >>

\* digest size in bytes of the hash
DigestBytes(hash) ==
    IF hash = "SHA-256" THEN 32 ELSE IF hash = "SHA-384" THEN 48 ELSE 64

Weight(j, i) == ((i * (2 * j + 29) + 7 * j) % 65520) + 1

RECURSIVE WSum(_, _, _, _)
WSum(j, s, lo, hi) ==
    IF lo > hi THEN 0
    ELSE IF lo = hi THEN ((s[lo] + 1) * Weight(j, lo)) % 65521
    ELSE LET mid == (lo + hi) \div 2
         IN  (WSum(j, s, lo, mid) + WSum(j, s, mid + 1, hi)) % 65521

\* crypto.subtle.sign('HMAC', key, data): the digest bytes.  The real HMAC is
\* idealised as a keyed function in which every byte of the key, the hash
\* and every byte and the length of the data take part: four 16-bit lanes,
\* spread over the digest so that its first eight bytes already hold all four.
HmacSign(hash, secret, data) ==
    LET nd == Len(data)
        Lane(j) == (WSum(j, data, 1, nd) + 31 * WSum(j, secret, 1, Len(secret))
                      + 977 * j * DigestBytes(hash) + 13 * nd) % 65521
        L == <<Lane(1), Lane(2), Lane(3), Lane(4)>>
    IN  [k \in 1..DigestBytes(hash) |->
            LET lane == ((k - 1) % 4) + 1
                r == (k - 1) \div 4
            IN  IF r = 0 THEN L[lane] % 256
                ELSE ((L[lane] \div 256) + r * L[(lane % 4) + 1] + k) % 256]

\* ---------------------------------------------------------------- values and the JSON codec

\* JavaScript values: undefined, null, integers, strings (as their UTF-8
\* bytes) and arrays of values, all in one record shape
VUndef == [t |-> "undefined", n |-> 0, s |-> << >>, a |-> << >>]
VNull == [t |-> "null", n |-> 0, s |-> << >>, a |-> << >>]
VNum(n) == [t |-> "number", n |-> n, s |-> << >>, a |-> << >>]
VStr(s) == [t |-> "string", n |-> 0, s |-> s, a |-> << >>]
VArr(a) == [t |-> "array", n |-> 0, s |-> << >>, a |-> a]

\* "null"
NullText == <<110, 117, 108, 108>>

\* the decimal text of an integer as bytes, '-' first when it is negative
IntText(n) ==
    IF n < 0 THEN <<45>> \o stringToBuffer(ToDecimal(0 - n))
    ELSE stringToBuffer(ToDecimal(n))

RECURSIVE JsonText(_)
RECURSIVE JsonElems(_)
\* JSON.stringify of a value other than undefined
JsonText(v) ==
    IF v.t = "number" THEN IntText(v.n)
    ELSE IF v.t = "string" THEN <<34>> \o v.s \o <<34>>
    ELSE IF v.t = "array" THEN <<91>> \o JsonElems(v.a) \o <<93>>
    ELSE NullText
\* the elements of an array, comma-separated; undefined is written as null
JsonElems(a) ==
    IF Len(a) = 0 THEN << >>
    ELSE IF Len(a) = 1 THEN JsonText(a[1])
    ELSE JsonText(a[1]) \o <<44>> \o JsonElems(Tail(a))

\* codecJSON.encode: JSON.stringify(undefined) is undefined, which
\* TextEncoder.encode takes as its default, the empty string
codecEncode(data) ==
    IF data.t = "undefined" THEN << >> ELSE JsonText(data)

ParseFail == [ok |-> FALSE, v |-> VNull, next |-> 0]
ParseOk(v, next) == [ok |-> TRUE, v |-> v, next |-> next]

IsWs(c) == c \in {32, 9, 10, 13}

\* index of the first non-whitespace byte at or after i (Len + 1 if none)
SkipWs(b, i) ==
    LET rest == {k \in i..Len(b) : ~IsWs(b[k])}
    IN  IF rest = {} THEN Len(b) + 1
        ELSE CHOOSE k \in rest : \A q \in rest : k <= q

RECURSIVE ParseValue(_, _)
RECURSIVE ParseElems(_, _, _)
\* JSON.parse of one value starting at or after index i: null, an
\* integer, a string without escapes, or an array of these; any other text
\* is reported as a parse failure
ParseValue(b, i) ==
    LET j == SkipWs(b, i)
        n == Len(b)
    IN  IF j > n THEN ParseFail
        ELSE IF b[j] = 110 THEN
            IF j + 3 <= n /\ SubSeq(b, j, j + 3) = NullText
            THEN ParseOk(VNull, j + 4) ELSE ParseFail
        ELSE IF b[j] = 45 THEN
            IF j + 1 <= n /\ b[j + 1] \in 48..57
            THEN LET r == ParseValue(b, j + 1)
                 IN  IF r.ok THEN ParseOk(VNum(0 - r.v.n), r.next) ELSE ParseFail
            ELSE ParseFail
        ELSE IF b[j] \in 48..57 THEN
            LET stops == {k \in j..n : b[k] \notin 48..57}
                e == IF stops = {} THEN n + 1
                     ELSE CHOOSE k \in stops : \A q \in stops : k <= q
            IN  IF (b[j] = 48 /\ e > j + 1) \/ e - j > 9
                   \/ (e <= n /\ b[e] \in {46, 69, 101})
                THEN ParseFail
                ELSE ParseOk(VNum(DecimalValue([k \in 1..(e - j) |-> b[j + k - 1] + 4])), e)
        ELSE IF b[j] = 34 THEN
            LET quotes == {k \in (j + 1)..n : b[k] = 34}
                q == IF quotes = {} THEN 0
                     ELSE CHOOSE k \in quotes : \A r \in quotes : k <= r
            IN  IF q = 0 \/ (\E k \in (j + 1)..(q - 1) : b[k] = 92 \/ b[k] < 32)
                THEN ParseFail
                ELSE ParseOk(VStr(SubSeq(b, j + 1, q - 1)), q + 1)
        ELSE IF b[j] = 91 THEN
            LET k == SkipWs(b, j + 1)
            IN  IF k <= n /\ b[k] = 93 THEN ParseOk(VArr(<< >>), k + 1)
                ELSE ParseElems(b, j + 1, << >>)
        ELSE ParseFail
\* the elements after '[' or ',', up to and including the closing ']'
ParseElems(b, i, acc) ==
    LET r == ParseValue(b, i)
        k == SkipWs(b, r.next)
    IN  IF ~r.ok \/ k > Len(b) THEN ParseFail
        ELSE IF b[k] = 44 THEN ParseElems(b, k + 1, Append(acc, r.v))
        ELSE IF b[k] = 93 THEN ParseOk(VArr(Append(acc, r.v)), k + 1)
        ELSE ParseFail

\* codecJSON.decode: [ok |-> FALSE] where JSON.parse throws
codecDecode(buffer) ==
    LET r == ParseValue(buffer, 1)
    IN  IF r.ok /\ SkipWs(buffer, r.next) > Len(buffer)
        THEN [ok |-> TRUE, v |-> r.v]
        ELSE [ok |-> FALSE, v |-> VNull]

\* ---------------------------------------------------------------- the extended JSON codec

\* the further values of the extended codec, in the same record shape: the
\* number NaN, Dates (s is empty for the time n, NotANumber for an invalid
\* Date, TimeFromText for a time Date.parse read from text, which the model
\* leaves open), BigInts, Sets and Maps (a holds the elements or the
\* [key, value] entries in insertion order), typed arrays (n is the element
\* type code) and ArrayBuffers (a holds the bytes)
NotANumber == <<78, 97, 78>>
TimeFromText == <<63>>
VNaN == [t |-> "nan", n |-> 0, s |-> << >>, a |-> << >>]
VDate(ms) == [t |-> "date", n |-> ms, s |-> << >>, a |-> << >>]
VDateOf(flag) == [t |-> "date", n |-> 0, s |-> flag, a |-> << >>]
VBigInt(n) == [t |-> "bigint", n |-> n, s |-> << >>, a |-> << >>]
VSet(a) == [t |-> "set", n |-> 0, s |-> << >>, a |-> a]
VMap(a) == [t |-> "map", n |-> 0, s |-> << >>, a |-> a]
VTyped(code, a) == [t |-> "typed", n |-> code, s |-> << >>, a |-> a]
VBuffer(a) == [t |-> "buffer", n |-> 0, s |-> << >>, a |-> a]
\* an object made by new globalThis[name](arg)
VGlobal(name, arg) == [t |-> "global", n |-> 0, s |-> name, a |-> <<arg>>]
\* a call that throws, and a call whose result the model does not determine
VThrow == [t |-> "throw", n |-> 0, s |-> << >>, a |-> << >>]
VOutside == [t |-> "outside", n |-> 0, s |-> << >>, a |-> << >>]

\* the first element of a tagged array
Sentinel == 0 - 7

\* TypedArrayConstructors, by index: the bytes of an element, whether its
\* elements are BigInts, whether they are floats
TypedArrayConstructors ==
    << [name |-> "Int8Array", size |-> 1, big |-> FALSE, float |-> FALSE],
       [name |-> "Uint8Array", size |-> 1, big |-> FALSE, float |-> FALSE],
       [name |-> "Uint8ClampedArray", size |-> 1, big |-> FALSE, float |-> FALSE],
       [name |-> "Int16Array", size |-> 2, big |-> FALSE, float |-> FALSE],
       [name |-> "Uint16Array", size |-> 2, big |-> FALSE, float |-> FALSE],
       [name |-> "Float16Array", size |-> 2, big |-> FALSE, float |-> TRUE],
       [name |-> "Int32Array", size |-> 4, big |-> FALSE, float |-> FALSE],
       [name |-> "Uint32Array", size |-> 4, big |-> FALSE, float |-> FALSE],
       [name |-> "Float32Array", size |-> 4, big |-> FALSE, float |-> TRUE],
       [name |-> "Float64Array", size |-> 8, big |-> FALSE, float |-> TRUE],
       [name |-> "BigInt64Array", size |-> 8, big |-> TRUE, float |-> FALSE],
       [name |-> "BigUint64Array", size |-> 8, big |-> TRUE, float |-> FALSE] >>

\* the row of TypedArrayConstructors for an element type code
Row(code) == TypedArrayConstructors[code + 1]

Pow2(k) == 2 ^ k

\* n is between -b and b
Within(n, b) == 0 - b <= n /\ n <= b

RECURSIVE toJSON(_)
\* what JSON.stringify serialises for a value while the codec's toJSON
\* methods are installed: jsonDate, jsonBigInt, jsonSet, jsonMap,
\* jsonTypedArray, jsonArrayBuffer, applied to the value and to everything
\* they return; NaN is written as null
toJSON(v) ==
    LET each(a) == VArr([i \in 1..Len(a) |-> toJSON(a[i])])
        tag(type, rest) == VArr(<<VNum(Sentinel), VNum(type)>> \o rest)
    IN  IF v.t = "date"
        THEN tag(1, <<IF v.s = << >> THEN VNum(v.n) ELSE VNull>>)
        ELSE IF v.t = "bigint" THEN tag(2, <<VStr(IntText(v.n))>>)
        ELSE IF v.t = "set" THEN tag(3, <<each(v.a)>>)
        ELSE IF v.t = "map" THEN tag(4, <<each(v.a)>>)
        ELSE IF v.t = "typed" THEN tag(7, <<VNum(v.n), each(v.a)>>)
        ELSE IF v.t = "buffer" THEN tag(8, <<each(v.a)>>)
        ELSE IF v.t = "array" THEN each(v.a)
        ELSE IF v.t = "nan" THEN VNull
        ELSE v

\* codecJSONextended.encode
jxEncode(data) ==
    IF data.t = "undefined" THEN << >> ELSE JsonText(toJSON(data))

\* the text of an object that is neither an array nor a typed array
\* ('[object Set]', the text of a Date): the model keeps '[', which is
\* enough to make it no number
NoNumberText == <<91>>

\* "undefined"
UndefinedText == <<117, 110, 100, 101, 102, 105, 110, 101, 100>>

RECURSIVE ToText(_)
RECURSIVE JoinText(_)
\* String(v): arrays and typed arrays are joined with ','
ToText(v) ==
    IF v.t \in {"number", "bigint"} THEN IntText(v.n)
    ELSE IF v.t = "string" THEN v.s
    ELSE IF v.t = "null" THEN NullText
    ELSE IF v.t = "undefined" THEN UndefinedText
    ELSE IF v.t = "nan" THEN NotANumber
    ELSE IF v.t \in {"array", "typed"} THEN JoinText(v.a)
    ELSE NoNumberText
\* Array.prototype.join: null and undefined elements give the empty text
JoinText(a) ==
    LET one(x) == IF x.t \in {"null", "undefined"} THEN << >> ELSE ToText(x)
    IN  IF Len(a) = 0 THEN << >>
        ELSE IF Len(a) = 1 THEN one(a[1])
        ELSE one(a[1]) \o <<44>> \o JoinText(Tail(a))

\* text without its leading and trailing spaces
Trim(s) ==
    LET inked == {k \in 1..Len(s) : s[k] # 32}
    IN  IF inked = {} THEN << >>
        ELSE SubSeq(s, CHOOSE k \in inked : \A q \in inked : k <= q,
                       CHOOSE k \in inked : \A q \in inked : k >= q)

\* the characters of numeric notations: digits, letters, '+', '-', '.'
NotationChars == (48..57) \cup (65..90) \cup (97..122) \cup {43, 45, 46}

\* the integer a text stands for, to Number() and to BigInt() alike: "int"
\* for the empty text (0) and for decimal digits with or without a sign,
\* "no" for text that starts like no number, "outside" for the other
\* numeric notations (fractions, exponents, hexadecimal, Infinity, more than
\* nine digits), which the model does not read
StringToInt(str) ==
    LET s == Trim(str)
        signed == Len(s) > 0 /\ s[1] \in {43, 45}
        d == IF signed THEN Tail(s) ELSE s
        digits == Len(d) > 0 /\ \A k \in 1..Len(d) : d[k] \in 48..57
        value == DecimalValue([k \in 1..Len(d) |-> d[k] + 4])
    IN  IF Len(s) = 0 THEN [k |-> "int", n |-> 0]
        ELSE IF digits /\ Len(d) <= 9
        THEN [k |-> "int", n |-> IF signed /\ s[1] = 45 THEN 0 - value ELSE value]
        ELSE IF s[1] \in 48..57 \cup {43, 45, 46, 73}
                /\ \A k \in 1..Len(s) : s[k] \in NotationChars
        THEN [k |-> "outside", n |-> 0]
        ELSE [k |-> "no", n |-> 0]

\* ToNumber(v): "num" with the integer n, "nan", "throw" (a BigInt), or
\* "outside"
ToNumber(v) ==
    LET text == StringToInt(ToText(v))
        read == IF text.k = "int" THEN [k |-> "num", n |-> text.n]
                ELSE IF text.k = "no" THEN [k |-> "nan", n |-> 0]
                ELSE [k |-> "outside", n |-> 0]
    IN  IF v.t = "number" THEN [k |-> "num", n |-> v.n]
        ELSE IF v.t = "null" THEN [k |-> "num", n |-> 0]
        ELSE IF v.t \in {"nan", "undefined"} THEN [k |-> "nan", n |-> 0]
        ELSE IF v.t = "bigint" THEN [k |-> "throw", n |-> 0]
        ELSE IF v.t = "date"
        THEN IF v.s = << >> THEN [k |-> "num", n |-> v.n]
             ELSE IF v.s = NotANumber THEN [k |-> "nan", n |-> 0]
             ELSE [k |-> "outside", n |-> 0]
        ELSE IF v.t \in {"global", "outside"} THEN [k |-> "outside", n |-> 0]
        ELSE read

\* BigInt(v) and ToBigInt(v): a number that is an integer, a BigInt, or text
\* StringToBigInt reads; a TypeError for null and undefined, a RangeError for
\* NaN, a SyntaxError for other text. asNumber is FALSE where a number is
\* refused too (the elements of a BigInt64Array)
toBigInt(v, asNumber) ==
    LET text == StringToInt(ToText(v))
    IN  IF v.t = "bigint" THEN v
        ELSE IF v.t = "number" THEN IF asNumber THEN VBigInt(v.n) ELSE VThrow
        ELSE IF v.t \in {"null", "undefined", "nan"} THEN VThrow
        ELSE IF v.t = "date"
        THEN IF v.s = << >> THEN IF asNumber THEN VBigInt(v.n) ELSE VThrow
             ELSE IF v.s = NotANumber THEN VThrow
             ELSE VOutside
        ELSE IF v.t \in {"global", "outside"} THEN VOutside
        ELSE IF text.k = "int" THEN VBigInt(text.n)
        ELSE IF text.k = "no" THEN VThrow
        ELSE VOutside

\* ToNumber or ToBigInt of x, stored as an element of the typed array with
\* this code: integers wrap to the width of the element (Uint8ClampedArray
\* clamps), NaN is stored as 0 in an integer element. The model's integers
\* have 32 bits, so an element of 32 or 64 bits holds every one of them that
\* has the element's sign, and a float holds those it represents exactly
toElement(code, x) ==
    LET r == Row(code)
        num == ToNumber(x)
        bits == 8 * r.size
        low == num.n % Pow2(bits)
    IN  IF r.big
        THEN LET g == toBigInt(x, FALSE)
             IN  IF g.t = "bigint" /\ code = 11 /\ g.n < 0 THEN VOutside ELSE g
        ELSE IF num.k = "throw" THEN VThrow
        ELSE IF num.k = "outside" THEN VOutside
        ELSE IF r.float
        THEN IF num.k = "nan" THEN VNaN
             ELSE IF code = 9 \/ (code = 8 /\ Within(num.n, Pow2(24)))
                     \/ (code = 5 /\ Within(num.n, Pow2(11)))
             THEN VNum(num.n) ELSE VOutside
        ELSE IF num.k = "nan" THEN VNum(0)
        ELSE IF code = 2 THEN VNum(Max(0, Min(255, num.n)))
        ELSE IF code = 6 THEN VNum(num.n)
        ELSE IF code = 7 THEN IF num.n < 0 THEN VOutside ELSE VNum(num.n)
        ELSE IF code \in {0, 3} /\ low >= Pow2(bits - 1) THEN VNum(low - Pow2(bits))
        ELSE VNum(low)

\* the values an iterable yields: the elements of an array, a Set or a typed
\* array, the entries of a Map, the characters of a string; ok is FALSE for
\* what is not iterable
Iterate(v) ==
    IF v.t \in {"array", "set", "map", "typed"} THEN [ok |-> TRUE, a |-> v.a]
    ELSE IF v.t = "string"
    THEN [ok |-> TRUE, a |-> [i \in 1..Len(v.s) |-> VStr(<<v.s[i]>>)]]
    ELSE [ok |-> FALSE, a |-> << >>]

\* the first value of a sequence that throws, else the first the model does
\* not determine, else VNull
Trouble(a) ==
    IF \E i \in 1..Len(a) : a[i].t = "throw" THEN VThrow
    ELSE IF \E i \in 1..Len(a) : a[i].t = "outside" THEN VOutside
    ELSE VNull

\* the largest array the model allocates
MaxAlloc == 16

\* new TypedArrayConstructors[code](m)
newTyped(code, m) ==
    LET r == Row(code)
        zero == IF r.big THEN VBigInt(0) ELSE VNum(0)
        len == ToNumber(m)
        it == Iterate(m)
        elems == [i \in 1..Len(it.a) |-> toElement(code, it.a[i])]
    IN  IF m.t \in {"undefined", "null", "date"} THEN VTyped(code, << >>)
        ELSE IF m.t \in {"number", "string"}
        THEN IF len.k = "outside" THEN VOutside
             ELSE IF len.k = "nan" THEN VTyped(code, << >>)
             ELSE IF len.n < 0 THEN VThrow
             ELSE IF len.n > MaxAlloc THEN VOutside
             ELSE VTyped(code, [i \in 1..len.n |-> zero])
        ELSE IF m.t = "bigint" THEN VThrow
        ELSE IF m.t = "buffer"
        THEN IF Len(m.a) % r.size # 0 THEN VThrow
             ELSE IF Len(m.a) = 0 THEN VTyped(code, << >>)
             ELSE IF r.size = 1
             THEN VTyped(code, [i \in 1..Len(m.a) |-> toElement(code, m.a[i])])
             ELSE VOutside
        ELSE IF m.t = "typed" /\ Row(m.n).big # r.big THEN VThrow
        ELSE IF it.ok
        THEN IF Trouble(elems).t # "null" THEN Trouble(elems) ELSE VTyped(code, elems)
        ELSE VOutside

\* the values compared by value in a Set and as the keys of a Map
Primitive(v) == v.t \in {"number", "string", "null", "undefined", "nan", "bigint"}

RECURSIVE Unique(_, _)
\* the values of a in order, without the primitives that came before
Unique(a, acc) ==
    IF Len(a) = 0 THEN acc
    ELSE IF Primitive(a[1]) /\ \E i \in 1..Len(acc) : acc[i] = a[1]
    THEN Unique(Tail(a), acc)
    ELSE Unique(Tail(a), Append(acc, a[1]))

\* new Set(n)
newSet(n) ==
    LET it == Iterate(n)
    IN  IF n.t \in {"undefined", "null"} THEN VSet(<< >>)
        ELSE IF n.t \in {"global", "outside"} THEN VOutside
        ELSE IF it.ok THEN VSet(Unique(it.a, << >>))
        ELSE VThrow

\* item[i] of an entry, counted from 0
Member(item, i) ==
    IF item.t \in {"array", "typed"} /\ i + 1 <= Len(item.a) THEN item.a[i + 1]
    ELSE VUndef

RECURSIVE Entries(_, _)
\* the entries of a Map filled from the items in order: a key that is set
\* again keeps its place and takes the new value
Entries(items, acc) ==
    IF Len(items) = 0 THEN acc
    ELSE LET key == Member(items[1], 0)
             entry == VArr(<<key, Member(items[1], 1)>>)
             seen == {i \in 1..Len(acc) : Primitive(key) /\ acc[i].a[1] = key}
         IN  IF seen = {} THEN Entries(Tail(items), Append(acc, entry))
             ELSE Entries(Tail(items),
                          [i \in 1..Len(acc) |-> IF i \in seen THEN entry ELSE acc[i]])

\* new Map(n): every item the iterable yields has to be an object
newMap(n) ==
    LET it == Iterate(n)
    IN  IF n.t \in {"undefined", "null"} THEN VMap(<< >>)
        ELSE IF n.t \in {"global", "outside"} THEN VOutside
        ELSE IF ~it.ok \/ (\E i \in 1..Len(it.a) : Primitive(it.a[i])) THEN VThrow
        ELSE IF \E i \in 1..Len(it.a) : it.a[i].t \in {"global", "outside"} THEN VOutside
        ELSE VMap(Entries(it.a, << >>))

\* new Date(n)
newDate(n) ==
    IF n.t = "number" THEN VDate(n.n)
    ELSE IF n.t = "null" THEN VDate(0)
    ELSE IF n.t \in {"undefined", "nan"} THEN VDateOf(NotANumber)
    ELSE IF n.t = "date" THEN n
    ELSE IF n.t = "bigint" THEN VThrow
    ELSE IF n.t \in {"global", "outside"} THEN VOutside
    ELSE VDateOf(TimeFromText)

\* new ArrayBuffer(n.length) and new Uint8Array(buffer).set(n): reading
\* length of null or undefined throws, what has no length gives the empty
\* buffer, a string gives its characters as numbers
newBuffer(n) ==
    LET it == Iterate(n)
        bytes == [i \in 1..Len(it.a) |-> toElement(1, it.a[i])]
    IN  IF n.t \in {"undefined", "null"} THEN VThrow
        ELSE IF n.t \in {"global", "outside"} THEN VOutside
        ELSE IF n.t \in {"array", "string", "typed"}
        THEN IF n.t = "typed" /\ Row(n.n).big /\ Len(n.a) > 0 THEN VThrow
             ELSE IF Trouble(bytes).t # "null" THEN Trouble(bytes)
             ELSE VBuffer(bytes)
        ELSE VBuffer(<< >>)

\* names the model knows on the prototype chain of an array and on
\* globalThis: those that are constructors, those that are something else
\* than a constructor, those that are undefined
ArrayName == <<65, 114, 114, 97, 121>>
FunctionName == <<70, 117, 110, 99, 116, 105, 111, 110>>
MapName == <<77, 97, 112>>
ConstructorKey == <<99, 111, 110, 115, 116, 114, 117, 99, 116, 111, 114>>
LengthName == <<108, 101, 110, 103, 116, 104>>
Constructors == {ArrayName, FunctionName, MapName}
NotConstructors == {LengthName, <<112, 117, 115, 104>>, <<112, 97, 114, 115, 101, 73, 110, 116>>, <<78, 97, 78>>}
Unnamed == {NullText, UndefinedText, <<122, 122>>, NoNumberText, << >>}

\* TypedArrayConstructors[n] ?? globalThis[n] ?? TypedArrayConstructors[1]:
\* the property key is the text of n, so the text of an index finds the
\* constructor at the index, 'constructor' finds Array and 'length' a number
constructorFor(n) ==
    LET key == ToText(n)
        codes == {c \in 0..11 : IntText(c) = key}
        as(kind, code, name) == [kind |-> kind, code |-> code, name |-> name]
    IN  IF n.t \in {"global", "outside"} THEN as("outside", 0, << >>)
        ELSE IF codes # {} THEN as("typed", CHOOSE c \in codes : TRUE, << >>)
        ELSE IF key = ConstructorKey THEN as("global", 0, ArrayName)
        ELSE IF key \in Constructors THEN as("global", 0, key)
        ELSE IF key \in NotConstructors THEN as("throw", 0, key)
        ELSE IF key \in Unnamed \/ n.t \in {"number", "bigint"} \/ key[1] \in 48..57
        THEN as("typed", 1, << >>)
        ELSE as("outside", 0, key)

\* codecJSONextended._fromJSON(key, value): value arrives with its
\* elements revived
fromJSON(value) ==
    LET at(i) == IF i <= Len(value.a) THEN value.a[i] ELSE VUndef
        type == at(2)
        n == at(3)
        m == at(4)
        ctor == constructorFor(n)
    IN  IF value.t = "array" /\ at(1) = VNum(Sentinel)
        THEN IF type = VNum(1) THEN newDate(n)
             ELSE IF type = VNum(2) THEN toBigInt(n, TRUE)
             ELSE IF type = VNum(3) THEN newSet(n)
             ELSE IF type = VNum(4) THEN newMap(n)
             ELSE IF type = VNum(7)
             THEN IF ctor.kind = "typed" THEN newTyped(ctor.code, m)
                  ELSE IF ctor.kind = "global" THEN VGlobal(ctor.name, m)
                  ELSE IF ctor.kind = "throw" THEN VThrow
                  ELSE VOutside
             ELSE IF type = VNum(8) THEN newBuffer(n)
             ELSE value
        ELSE value

RECURSIVE Revive(_)
\* JSON.parse's walk with the reviver: the elements of an array first, then
\* the array itself; what throws anywhere throws out of the walk
Revive(v) ==
    LET kids == [i \in 1..Len(v.a) |-> Revive(v.a[i])]
    IN  IF v.t # "array" THEN v
        ELSE IF Trouble(kids).t # "null" THEN Trouble(kids)
        ELSE fromJSON(VArr(kids))

\* codecJSONextended.decode: [ok |-> FALSE] where JSON.parse or the reviver
\* throws
jxDecode(buffer) ==
    LET r == ParseValue(buffer, 1)
        v == Revive(r.v)
    IN  IF r.ok /\ SkipWs(buffer, r.next) > Len(buffer) /\ v.t # "throw"
        THEN [ok |-> TRUE, v |-> v]
        ELSE [ok |-> FALSE, v |-> VNull]

\* ---------------------------------------------------------------- engine configuration

\* an option value as Number() reads it: NaN, or the number n + f/10 with
\* n whole and f one of 0..9
Num(n) == [nan |-> FALSE, n |-> n, f |-> 0]
NaN == [nan |-> TRUE, n |-> 0, f |-> 0]
Frac(n, f) == [nan |-> FALSE, n |-> n, f |-> f]

\* a number that is no option value: n + f/10
Number(n, f) == [n |-> n, f |-> f]

\* Hwtr.numeric, for whole numbers preset, min and max
numeric(value, preset, min, max) ==
    IF value.nan THEN Number(preset, 0)
    ELSE IF value.n < min THEN Number(min, 0)
    ELSE IF value.n > max \/ (value.n = max /\ value.f > 0) THEN Number(max, 0)
    ELSE Number(value.n, value.f)

\* the names Hwtr.#codecs holds a codec for, once the formats are registered
codecs == {FmtJ, FmtJX}

\* the constructor's option defaults
DefaultOptions ==
    [ signatureSize |-> Num(0), expiresInSeconds |-> Num(60), errors |-> FALSE,
      errorOnInvalid |-> FALSE, errorOnExpired |-> FALSE, errorOnGenerate |-> TRUE,
      errorOnEncoding |-> TRUE, leewaySeconds |-> Num(1),
      maxTokenSizeBytes |-> Num(2048), format |-> FmtJ, hash |-> "SHA-256" ]

\* the row of supports for a hash name, the first row for an unknown name
SupportRow(hash) ==
    IF \E i \in 1..Len(supports) : supports[i][1] = hash
    THEN supports[CHOOSE i \in 1..Len(supports) : supports[i][1] = hash]
    ELSE supports[1]

\* the signature size as it would be if the option were taken as given
signatureSizeFor_given(o) ==
    IF o.signatureSize.nan \/ o.signatureSize = Num(0) THEN 0
    ELSE IF o.signatureSize.n < 0 THEN 0 ELSE o.signatureSize.n

\* the constructor's signatureSize before the full length is set to 0:
\* signatureSize ? this.numeric(signatureSize, 0, _min, _max) : 0, of which
\* slice takes the whole part
signatureSizeFor(o) ==
    IF o.signatureSize.nan \/ o.signatureSize = Num(0) THEN 0
    ELSE numeric(o.signatureSize, 0, SupportRow(o.hash)[2], SupportRow(o.hash)[3]).n

\* the leeway as it would be if the option were taken as given
leewayFor_given(o) ==
    IF o.leewaySeconds.nan THEN 1 ELSE o.leewaySeconds.n

\* the constructor's #leewaySeconds: this.numeric(leewaySeconds, 1, 0, 30),
\* of which the whole seconds count against a clock of whole seconds
leewayFor(o) == numeric(o.leewaySeconds, 1, 0, 30).n

\* new Hwtr(keys, options): the configured fields of the instance
Constructor(o) ==
    LET row == SupportRow(o.hash)
        size == signatureSizeFor(o)
    IN  [ format |-> IF o.format \in codecs THEN o.format ELSE FmtJ,
          expiresInSeconds |-> numeric(o.expiresInSeconds, 60, 0, 31557600).n,
          expiresTenths |-> numeric(o.expiresInSeconds, 60, 0, 31557600).f,
          leewaySeconds |-> leewayFor(o),
          errorOnInvalid |-> o.errors \/ o.errorOnInvalid,
          errorOnExpired |-> o.errors \/ o.errorOnExpired,
          errorOnEncoding |-> o.errors \/ o.errorOnEncoding,
          errorOnGenerate |-> o.errorOnGenerate,
          maxTokenSizeBytes |-> numeric(o.maxTokenSizeBytes, 2048, 512, 5120).n,
          hash |-> row[1],
          signatureSize |-> IF size = row[3] THEN 0 ELSE size ]

\* ---------------------------------------------------------------- signing

\* an imported key: its id and the CryptoKey, which is the secret bytes
\* copied at import time bound to the hash of the importing engine
MakeKey(id, secret, hash) == [id |-> id, secret |-> secret, hash |-> hash]

\* String.prototype.slice(0, n) for n >= 0
Slice(str, n) == SubSeq(str, 1, Min(n, Len(str)))

\* Hwtr.generate(text, {key}) with a usable key: the signature text
generateSig(E, key, text) ==
    LET hmac == HmacSign(key.hash, key.secret, stringToBuffer(text))
        sig == bufferToBase64Url(hmac)
    IN  IF E.signatureSize # 0 THEN Slice(sig, E.signatureSize) ELSE sig

\* Hwtr.nowSeconds + Hwtr.numeric(secondsForward, 1): expiresAt
expiresAt(now, secondsForward) ==
    LET s == numeric(secondsForward, 1, 1, 31557600)
    IN  Number(now + s.n, s.f)

\* _createWith: the fields that are signed (hidden ?? payload)
signedFields(exp, format, item, hasHidden, itemHidden) ==
    IF hasHidden THEN <<exp, format, item, itemHidden>> ELSE <<exp, format, item>>

\* tokenFields as it would be if payload and hidden were one array
\* (hidden = payload; hidden.push(itemHidden))
tokenFields_shared(exp, format, item, hasHidden, itemHidden) ==
    signedFields(exp, format, item, hasHidden, itemHidden)

\* _createWith: the fields the token carries after the key id (payload)
tokenFields(exp, format, item, hasHidden, itemHidden) == <<exp, format, item>>

\* sizeLimit as it would be without the cut
sizeLimit_noCut(E, token) ==
    LET max == E.maxTokenSizeBytes
    IN  IF Len(token) > max /\ E.errorOnInvalid
        THEN [thrown |-> TRUE, error |-> "hwt size exceeded", token |-> << >>,
              cut |-> FALSE, size |-> Len(token)]
        ELSE [thrown |-> FALSE, error |-> "", token |-> token, cut |-> FALSE,
              size |-> Len(token)]

\* _createWith: an assembled token against the size limit
sizeLimit(E, token) ==
    LET max == E.maxTokenSizeBytes
    IN  IF Len(token) > max
        THEN IF E.errorOnInvalid
             THEN [thrown |-> TRUE, error |-> "hwt size exceeded", token |-> << >>,
                   cut |-> FALSE, size |-> Len(token)]
             ELSE [thrown |-> FALSE, error |-> "", token |-> Slice(token, max),
                   cut |-> TRUE, size |-> Len(token)]
        ELSE [thrown |-> FALSE, error |-> "", token |-> token, cut |-> FALSE,
              size |-> Len(token)]

\* Hwtr._createWith on an engine E whose keyring is K: the token, or the
\* error it throws; size is the length of the token as assembled
CreateToken(E, K, exp, dataShown, hasHidden, dataHidden) ==
    LET item == bufferToBase64Url(codecEncode(dataShown))
        itemHidden == IF hasHidden THEN bufferToBase64Url(codecEncode(dataHidden))
                      ELSE << >>
        payload == tokenFields(NumberText(exp), E.format, item, hasHidden, itemHidden)
        hidden == signedFields(NumberText(exp), E.format, item, hasHidden, itemHidden)
    IN  IF CurrentId \notin DOMAIN K
        THEN [thrown |-> TRUE, error |-> "hwt failed to generate HMAC signature",
              token |-> << >>, cut |-> FALSE, size |-> 0]
        ELSE LET key == K[CurrentId]
                 sig == generateSig(E, key, Join(hidden))
             IN  sizeLimit(E, Join(<<Prefix, sig, key.id>> \o payload))

\* ---------------------------------------------------------------- verification

\* isExpired as it would be with a strict comparison against the leeway
isExpired_strict(E, val, now) ==
    LET expiry == NumberOrZero(val)
        expired == expiry <= now
        withinLeeway == expired /\ (now - expiry < E.leewaySeconds)
    IN  [ expires |-> expiry, expired |-> expired,
          withinLeeway |-> withinLeeway,
          validTime |-> ~expired \/ withinLeeway ]

\* Hwtr.isExpired(val) at clock value now
isExpired(E, val, now) ==
    LET expiry == NumberOrZero(val)
        expired == expiry <= now
        withinLeeway == expired /\ (now - expiry <= E.leewaySeconds)
    IN  [ expires |-> expiry, expired |-> expired,
          withinLeeway |-> withinLeeway,
          validTime |-> ~expired \/ withinLeeway ]

StartsWith(str, pre) == Len(str) >= Len(pre) /\ SubSeq(str, 1, Len(pre)) = pre

\* verifyFields as it would be if verify left the format out of what it signs
verifyFields_noFormat(exp, format, dataShown, hasHidden, itemHidden) ==
    IF hasHidden THEN <<exp, dataShown, itemHidden>>
    ELSE <<exp, dataShown>>

\* verify: the fields that are signed, rebuilt from the token's own fields
verifyFields(exp, format, dataShown, hasHidden, itemHidden) ==
    IF hasHidden THEN <<exp, format, dataShown, itemHidden>>
    ELSE <<exp, format, dataShown>>

\* keyFor as it would be if verify signed with the current key
keyFor_current(K, kid) == K[CurrentId]

\* verify: this.#keys[kid]
keyFor(K, kid) == K[kid]

\* the name 'constructor'
ConstructorName == <<28, 40, 39, 44, 45, 43, 46, 28, 45, 40, 43>>
ToStringName == <<45, 40, 18, 45, 43, 34, 39, 32>>

\* #keys = {} and #codecs = {j: null} are plain objects: a lookup of a name
\* they do not hold themselves goes on to Object.prototype, which answers
\* these names with a function
ObjectPrototype == {ConstructorName, ToStringName}

\* Hwtr.#codecs[name]: a codec, a function of Object.prototype, or nothing
codecFor(name) ==
    IF name \in codecs THEN "codec"
    ELSE IF name \in ObjectPrototype THEN "inherited"
    ELSE "none"

\* the result object as verify creates it; has lists the properties set
\* so far, stage the last step verify reached
Result0 ==
    [ ok |-> FALSE, data |-> VNull, validTime |-> FALSE, expired |-> FALSE,
      expires |-> 0, withinLeeway |-> FALSE, error |-> "", thrown |-> FALSE,
      has |-> {"ok", "data"}, stage |-> "structure", arg |-> << >> ]

\* leaving verify as it would be if no error were put into the result
Fail_silent(r, error, flag, stage) ==
    [r EXCEPT !.thrown = flag, !.stage = stage]

\* leave verify with an error: thrown when the engine's flag for it is set
Fail(r, error, flag, stage) ==
    [r EXCEPT !.error = error, !.thrown = flag, !.stage = stage,
              !.has = @ \cup {"error"}]

\* the last step of verify with a catch that leaves result.ok as the
\* signature comparison set it
decodePayload_okKept(r, codec, dataShown) ==
    LET d == IF codec = "codec" THEN codecDecode(base64urlToUint8Array(dataShown))
             ELSE [ok |-> FALSE, v |-> VNull]
    IN  IF d.ok
        THEN [r EXCEPT !.ok = TRUE, !.data = d.v, !.stage = "decoded"]
        ELSE [Fail(r, "hwt data decoding failed", FALSE, "decode") EXCEPT !.ok = TRUE]

\* the last step of verify, after the signature matched: codec.decode of the
\* payload bytes in a try whose catch sets data null, ok false and the
\* error; an inherited member of the codec table has no decode to call
decodePayload(r, codec, dataShown) ==
    LET d == IF codec = "codec" THEN codecDecode(base64urlToUint8Array(dataShown))
             ELSE [ok |-> FALSE, v |-> VNull]
    IN  IF d.ok
        THEN [r EXCEPT !.ok = TRUE, !.data = d.v, !.stage = "decoded"]
        ELSE Fail(r, "hwt data decoding failed", FALSE, "decode")

\* Hwtr.verify(payload, dataHidden) on an engine E with keyring K at clock
\* value now, for a string payload
Verify(E, K, payload, hasHidden, dataHidden, now) ==
    IF ~StartsWith(payload, Prefix) \/ Len(payload) > E.maxTokenSizeBytes
    THEN Fail(Result0, "hwt invalid", E.errorOnInvalid, "structure")
    ELSE
    LET parts == Split(payload) IN
    IF Len(parts) < 6
    THEN Fail(Result0, "hwt invalid format", E.errorOnInvalid, "structure")
    ELSE
    LET sig == parts[2]
        kid == parts[3]
        exp == parts[4]
        format == parts[5]
        dataShown == parts[6]
        time == isExpired(E, exp, now)
        r1 == [Result0 EXCEPT !.validTime = time.validTime, !.expired = time.expired,
                              !.expires = time.expires,
                              !.withinLeeway = time.expired /\ time.withinLeeway,
                              !.has = @ \cup {"validTime", "expired", "expires"}
                                        \cup (IF time.expired THEN {"withinLeeway"} ELSE {})]
    IN
    IF time.expired /\ ~time.validTime
    THEN Fail(r1, "hwt expired", E.errorOnExpired, "time")
    ELSE
    LET codec == codecFor(IF format = << >> THEN E.format ELSE format) IN
    IF codec = "none"
    THEN [Fail(r1, "hwt unknown encoding", E.errorOnEncoding, "codec") EXCEPT !.arg = format]
    ELSE IF codec = "inherited" /\ hasHidden
    \* codec.encode is not a function
    THEN Fail(r1, "hwt data encoding failed", E.errorOnEncoding, "codec")
    ELSE
    LET hidden == verifyFields(exp, format, dataShown, hasHidden,
                               IF hasHidden THEN bufferToBase64Url(codecEncode(dataHidden))
                               ELSE << >>)
    IN
    IF kid \notin DOMAIN K /\ kid \notin ObjectPrototype
    THEN Fail(r1, "hwt unknown key", E.errorOnInvalid, "key")
    ELSE IF kid \notin DOMAIN K
    \* key.key is undefined: generate throws, or returns an Error that verify
    \* cannot destructure
    THEN Fail(r1, IF E.errorOnGenerate THEN "hwt failed to generate HMAC signature"
                  ELSE "TypeError", TRUE, "generate")
    ELSE
    LET resign == generateSig(E, keyFor(K, kid), Join(hidden))
        ok == timingSafeEqual(sig, resign)
    IN
    IF ~ok
    THEN Fail(r1, "hwt invalid signature", E.errorOnInvalid, "signature")
    ELSE decodePayload(r1, codec, dataShown)

\* Hwtr.verify(payload, dataHidden) for any payload: input.str tells a string
\* from another value
verify(E, K, input, hasHidden, dataHidden, now) ==
    IF ~input.str
    THEN Fail(Result0, "hwt invalid", E.errorOnInvalid, "structure")
    ELSE Verify(E, K, input.text, hasHidden, dataHidden, now)

\* the result object as decode creates it
Decoded0 == [data |-> VNull, expires |-> 0, error |-> "", arg |-> << >>, thrown |-> FALSE]

\* part i of parts, undefined (here the empty string) beyond the last
PartAt(parts, i) == IF i <= Len(parts) THEN parts[i] ELSE << >>

\* decode as it would be if it looked at the prefix the way verify does
decode_prefixed(E, payload) ==
    LET parts == Split(payload)
        exp == PartAt(parts, 4)
        format == PartAt(parts, 5)
        dataShown == PartAt(parts, 6)
        codec == codecFor(IF format = << >> THEN E.format ELSE format)
        r1 == [Decoded0 EXCEPT !.expires = NumberOrZero(exp)]
        r2 == IF codec = "none"
              THEN [r1 EXCEPT !.error = "hwt unknown encoding", !.arg = format]
              ELSE r1
        d == IF codec = "codec" THEN codecDecode(base64urlToUint8Array(dataShown))
             ELSE [ok |-> FALSE, v |-> VNull]
    IN  IF ~StartsWith(payload, Prefix) THEN [r1 EXCEPT !.error = "hwt invalid"]
        ELSE IF d.ok THEN [r2 EXCEPT !.data = d.v]
        ELSE [r2 EXCEPT !.error = "hwt data decoding failed"]

\* Hwtr.decode(payload) on an engine E, for a string payload
decode(E, payload) ==
    LET parts == Split(payload)
        exp == PartAt(parts, 4)
        format == PartAt(parts, 5)
        dataShown == PartAt(parts, 6)
        codec == codecFor(IF format = << >> THEN E.format ELSE format)
        r1 == [Decoded0 EXCEPT !.expires = NumberOrZero(exp)]
        r2 == IF codec = "none"
              THEN [r1 EXCEPT !.error = "hwt unknown encoding", !.arg = format]
              ELSE r1
        d == IF codec = "codec" THEN codecDecode(base64urlToUint8Array(dataShown))
             ELSE [ok |-> FALSE, v |-> VNull]
    IN  IF d.ok THEN [r2 EXCEPT !.data = d.v]
        ELSE [r2 EXCEPT !.error = "hwt data decoding failed"]

\* ---------------------------------------------------------------- the codec registry

\* a member of a codec object: a function has an identity 1, 2, ..., and 0
\* is any value that is not a function
Fns == 0..2
IsFunction(f) == f # 0

\* a codec argument: the object it is (id, 0 for undefined) and its members
Undefined == [id |-> 0, encode |-> 0, decode |-> 0]

\* formats.j and formats.jx of hwtr.formats.js
FormatsJ == [id |-> 1, encode |-> 1, decode |-> 1]
FormatsJX == [id |-> 2, encode |-> 2, decode |-> 2]

\* what Hwtr.#codecs holds under a name: nothing, null, or a codec object
\* (of: the caller's object it is, 0 when it is an object of its own)
Absent == [t |-> "absent", encode |-> 0, decode |-> 0, of |-> 0]
NullEntry == [t |-> "null", encode |-> 0, decode |-> 0, of |-> 0]

\* the names registerFormat is called with: 'x', '1x', 'a-b', 'abcdefghijk'
NameX == <<49>>
Name1x == <<53, 49>>
NameDash == <<26, 62, 27>>
NameLong == <<26, 27, 28, 29, 30, 31, 32, 33, 34, 35, 36>>
RegNames ==
    {FmtJ, FmtJX, NameX, Name1x, NameDash, NameLong, ConstructorName, ToStringName, << >>}

\* static #codecs = {j: null}
Registry0 == [n \in RegNames |-> IF n = FmtJ THEN NullEntry ELSE Absent]

\* /^[a-zA-Z][a-zA-Z0-9]{1,9}$/.test(name)
namePattern(name) ==
    /\ Len(name) \in 2..10
    /\ name[1] \in 0..51
    /\ \A i \in 2..Len(name) : name[i] \in 0..61

\* Hwtr.#codecs[name] taken as a condition: own entries, then Object.prototype
truthy(reg, name) ==
    \/ reg[name].t = "codec"
    \/ reg[name].t = "absent" /\ name \in ObjectPrototype

\* the stored codec as it would be if the caller's object itself were stored
freezeCopy_same(codec) ==
    [t |-> "codec", encode |-> codec.encode, decode |-> codec.decode, of |-> codec.id]

\* Object.freeze({...codec}): a new object with the members codec has now
freezeCopy(codec) ==
    [t |-> "codec", encode |-> codec.encode, decode |-> codec.decode, of |-> 0]

\* Hwtr.registerFormat(name, codec) on the registry reg: what the call gives
\* (this, a returned Error, a thrown Error) and the registry after it
registerFormat(reg, name, codec) ==
    LET missing == ~IsFunction(codec.encode) \/ ~IsFunction(codec.decode)
        badName == ~namePattern(name) /\ ~(reg[name].t = "null" /\ name = FmtJ)
        errors == (IF missing THEN {"missing method"} ELSE {})
                     \cup (IF badName THEN {"name"} ELSE {})
    IN  IF truthy(reg, name)
        THEN [out |-> "returned", errors |-> {"exists"}, registry |-> reg]
        ELSE IF errors # {}
        THEN [out |-> "thrown", errors |-> errors, registry |-> reg]
        ELSE [out |-> "this", errors |-> {},
              registry |-> [reg EXCEPT ![name] = freezeCopy(codec)]]

\* Hwtr.formats
formats(reg) == {n \in RegNames : reg[n].t # "absent"}

\* the registry once hwtr.formats.js has registered j and jx
Loaded ==
    registerFormat(registerFormat(Registry0, FmtJ, FormatsJ).registry,
                   FmtJX, FormatsJX).registry

\* ---------------------------------------------------------------- serialisation hooks

\* the prototypes whose toJSON codecJSONextended.encode replaces
HookOwners == {"Date", "Set", "Map", "BigInt", "ArrayBuffer", "TypedArray"}

\* the value of a toJSON property: "native" is Date.prototype.toJSON as the
\* platform defines it, "none" is undefined, "user" a function the program
\* has put there, "jx" the method of codecJSONextended
BuiltinHooks == [p \in HookOwners |-> IF p = "Date" THEN "native" ELSE "none"]

\* the hooks while JSON.stringify runs inside codecJSONextended.encode
InstalledHooks == [p \in HookOwners |-> "jx"]

\* an array that holds itself
VCyclic == [t |-> "cyclic", n |-> 0, s |-> << >>, a |-> << >>]

RECURSIVE Cyclic(_)
Cyclic(v) == v.t = "cyclic" \/ \E i \in 1..Len(v.a) : Cyclic(v.a[i])

\* the three digits of a number below 1000
Digits3(n) == <<48 + (n \div 100), 48 + ((n \div 10) % 10), 48 + (n % 10)>>

\* Date.prototype.toISOString for a time within the first second of the
\* epoch: '1970-01-01T00:00:00.' and the milliseconds, then 'Z'
IsoText(ms) ==
    <<49, 57, 55, 48, 45, 48, 49, 45, 48, 49, 84, 48, 48, 58, 48, 48, 58, 48, 48, 46>>
       \o Digits3(ms) \o <<90>>

RECURSIVE Hooked(_, _)
\* what JSON.stringify serialises for a Date, a BigInt or a JSON value
\* (and arrays of these) under the hooks h: a BigInt with no toJSON throws
Hooked(h, v) ==
    IF v.t = "date"
    THEN IF h["Date"] = "jx" THEN toJSON(v)
         ELSE IF h["Date"] \in {"native", "user"} THEN VStr(IsoText(v.n))
         ELSE VArr(<< >>)
    ELSE IF v.t = "bigint"
    THEN IF h["BigInt"] = "jx" THEN toJSON(v)
         ELSE IF h["BigInt"] = "user" THEN VStr(IntText(v.n))
         ELSE VThrow
    ELSE IF v.t = "array" THEN VArr([i \in 1..Len(v.a) |-> Hooked(h, v.a[i])])
    ELSE v

RECURSIVE Throws(_)
Throws(v) == v.t = "throw" \/ \E i \in 1..Len(v.a) : Throws(v.a[i])

\* codecJSON.encode(data) while the hooks are h
codecEncodeUnder(h, data) ==
    IF Cyclic(data) \/ Throws(Hooked(h, data)) THEN [raised |-> TRUE, text |-> << >>]
    ELSE [raised |-> FALSE, text |-> codecEncode(Hooked(h, data))]

\* codecJSONextended.encode(data): JSON.stringify runs under the installed
\* hooks; a cyclic value makes it throw
jxEncodeUnder(h, data) ==
    IF Cyclic(data) THEN [raised |-> TRUE, text |-> << >>]
    ELSE [raised |-> FALSE, text |-> jxEncode(data)]

\* the hooks after encode as they would be without the finally block: put
\* back only when JSON.stringify returned
hooksAfterEncode_noFinally(h, data) ==
    IF Cyclic(data) THEN InstalledHooks ELSE h

\* the hooks after codecJSONextended.encode: the six saved values are
\* assigned back in the finally block, however the try block ended
hooksAfterEncode(h, data) ==
    LET saved == h
        installed == InstalledHooks
    IN  [p \in HookOwners |-> saved[p]]

\* ---------------------------------------------------------------- state

VARIABLES
    eng,      \* eng[e]: the configured fields of engine e
    keys,     \* keys[e]: the #keys object of engine e, key id -> imported key
    now,      \* the clock, Hwtr.nowSeconds
    ticks,    \* how many times the clock has advanced
    token,    \* the token string in the caller's hands
    tk,       \* how that token came about (the create call and any alteration)
    res,      \* the last verify call and the result it gave
    ring,     \* the keyring specification object the engines are built from
    boot,     \* boot[e]: how far the construction of engine e has come
    mq,       \* the microtask queue: promise reactions waiting to run
    ops,      \* the crypto.subtle.importKey calls the platform has not settled
    dec,      \* the last decode call and the result it gave
    registry, \* Hwtr.#codecs: what is stored under each name
    objs,     \* the codec objects in the caller's hands
    rf,       \* the last registerFormat call, and the first codec each name got
    bufs,     \* the buffers importKey and generate have made, one per call
    pure,     \* the last call of a static helper or of a codec, and what it gave
    calls,    \* the create, verify and decode calls made on engine 1, in flight or ended
    hooks     \* the toJSON property of the prototypes JSON.stringify consults

vars ==
    <<eng, keys, now, ticks, token, tk, res, ring, boot, mq, ops, dec, registry, objs, rf,
      bufs, pure, calls, hooks>>

\* what create, verify and construction leave alone
otherVars == <<dec, registry, objs, rf, bufs, pure, calls, hooks>>

\* what only registerFormat and the holders of codec objects change
regVars == <<registry, objs, rf>>

\* what only construction changes
bootVars == <<ring, boot, mq, ops>>

Engines == {1, 2}

\* the clock value the model starts at
Epoch == 1700000000
\* the clock advances at most this many times
MaxTicks == 3
\* tokens are issued until the clock has advanced this many times
MaxIssueTicks == 0

\* a secret of 32 bytes, one per key
SecretOf(k) == [i \in 1..32 |-> 64 + k]

\* the #keys object after importKeys of the two-key keyring {key1, key2}
\* with the requested current id: one entry per key id, and 'current'
ImportedKeys(hash, current) ==
    LET k1 == MakeKey(Key1, SecretOf(1), hash)
        k2 == MakeKey(Key2, SecretOf(2), hash)
    IN  (Key1 :> k1) @@ (Key2 :> k2)
           @@ (CurrentId :> IF current = Key2 THEN k2 ELSE k1)

\* the options the engines are constructed with
OptionChoices ==
    { DefaultOptions,
      [DefaultOptions EXCEPT !.signatureSize = Num(22)],
      [DefaultOptions EXCEPT !.signatureSize = Num(33)],
      [DefaultOptions EXCEPT !.signatureSize = Num(24), !.leewaySeconds = Num(2)],
      [DefaultOptions EXCEPT !.hash = "SHA-384", !.format = FmtJX,
                             !.maxTokenSizeBytes = Num(100)],
      [DefaultOptions EXCEPT !.hash = "SHA-512", !.signatureSize = Num(11),
                             !.format = FmtZZ, !.maxTokenSizeBytes = Num(9999)],
      [DefaultOptions EXCEPT !.errors = TRUE, !.leewaySeconds = Num(0),
                             !.expiresInSeconds = Num(2)] }

\* the second engine shares the first one's keyring specification and hash
PeerChoices(o) ==
    { <<o, Key2>>,
      <<[o EXCEPT !.signatureSize =
                     IF o.signatureSize = Num(0) THEN Num(22) ELSE Num(0)], Key1>> }

\* the visible values and the hidden inputs of the model
ValA == VArr(<<VStr(<<97>>), VStr(<<98>>)>>)
ValB == VArr(<<VStr(<<98>>), VStr(<<97>>)>>)
ValC == VArr(<<VNum(1), VUndef>>)
Shown == {ValA, ValC, VUndef}
\* <<given, value>>: verify and create test dataHidden !== undefined
Hiddens == {<<FALSE, VUndef>>, <<TRUE, ValA>>, <<TRUE, ValB>>}

\* create(), or createWith(arg)
Life(kind, arg) == [kind |-> kind, arg |-> arg]
Lifetimes ==
    {Life("create", Num(0)), Life("createWith", Num(1)), Life("createWith", Num(31557600))}

NoToken ==
    [ by |-> 0, life |-> Life("create", Num(0)), v |-> VUndef, hasHidden |-> FALSE,
      h |-> VUndef, exp |-> 0, expf |-> 0, at |-> 0, cut |-> FALSE, thrown |-> FALSE,
      error |-> "", altered |-> "none", size |-> 0 ]

NoRes == [by |-> 0, hasHidden |-> FALSE, h |-> VUndef, at |-> 0, r |-> Result0]

NoDec == [by |-> 0, r |-> Decoded0]

\* no static helper and no codec has been called
NoPure == [op |-> "none"]

\* no registerFormat call yet: n calls made, m changes made to codec objects
NoCall ==
    [ n |-> 0, m |-> 0, name |-> << >>, codec |-> Undefined, out |-> "", errors |-> {},
      prev |-> Registry0, first |-> [x \in RegNames |-> Undefined] ]

\* the codec objects of hwtr.formats.js
Formats == (1 :> [encode |-> 1, decode |-> 1]) @@ (2 :> [encode |-> 2, decode |-> 2])

\* the registry as the engines find it
FormatsRegistered ==
    /\ registry = Loaded
    /\ objs = Formats
    /\ rf = NoCall

\* one entry of the keyring specification: kind tells a string secret from a
\* raw buffer, dot whether the id holds a '.'
RingKey(id, kind, secret) == [id |-> id, kind |-> kind, secret |-> secret]

\* the keyring specification {keys: [key1, key2]} with string secrets; engine
\* e is built with {current: current[e], keys}
StringRing ==
    [ keys |-> << RingKey(Key1, "string", SecretOf(1)),
                  RingKey(Key2, "string", SecretOf(2)) >> ]

\* importKeys' local curr while it is undefined
NoKey == MakeKey(<< >>, << >>, "")

\* engine e before new Hwtr: #keys = {}, #ready = null; curr is the local of
\* importKeys and cur its id
Unbuilt ==
    [ ik |-> "none", rd |-> "none", ready |-> "null", want |-> << >>, cur |-> << >>,
      curr |-> NoKey, left |-> 0, wins |-> 0, caller |-> "none" ]

\* engine e once importKeys has returned and the factory promise has resolved
Built(current) ==
    [ ik |-> "done", rd |-> "resolved", ready |-> "null", want |-> current,
      cur |-> current, curr |-> NoKey, left |-> 0, wins |-> 2, caller |-> "ready" ]

Init ==
    /\ \E o \in OptionChoices : \E p \in PeerChoices(o) :
          /\ eng = (1 :> Constructor(o)) @@ (2 :> Constructor(p[1]))
          /\ keys = (1 :> ImportedKeys(Constructor(o).hash, Key1))
                      @@ (2 :> ImportedKeys(Constructor(p[1]).hash, p[2]))
          /\ boot = (1 :> Built(Key1)) @@ (2 :> Built(p[2]))
    /\ ring = StringRing
    /\ mq = << >>
    /\ ops = {}
    /\ now = Epoch
    /\ ticks = 0
    /\ token = << >>
    /\ tk = NoToken
    /\ res = NoRes
    /\ dec = NoDec
    /\ FormatsRegistered
    /\ bufs = << >>
    /\ pure = NoPure
    /\ calls = << >>
    /\ hooks = BuiltinHooks

\* ---------------------------------------------------------------- operations

\* the exp of create() and of createWith(arg)
ExpOf(E, life, t) ==
    IF life.kind = "create" THEN Number(t + E.expiresInSeconds, E.expiresTenths)
    ELSE IF life.kind = "createWith" THEN expiresAt(t, life.arg)
    ELSE expiresAt(t, Frac(E.expiresInSeconds, E.expiresTenths))

\* hwtr.create(v, h) or hwtr.createWith(arg, v, h) on engine e
Issue(e, life, v, hid) ==
    LET exp == ExpOf(eng[e], life, now)
        c == CreateToken(eng[e], keys[e], exp, v, hid[1], hid[2])
    IN  /\ token' = c.token
        /\ tk' = [ by |-> e, life |-> life, v |-> v, hasHidden |-> hid[1],
                   h |-> hid[2], exp |-> exp.n, expf |-> exp.f, at |-> now, cut |-> c.cut,
                   thrown |-> c.thrown, error |-> c.error, altered |-> "none",
                   size |-> c.size ]
        /\ res' = NoRes
        /\ UNCHANGED <<eng, keys, now, ticks>>
        /\ UNCHANGED otherVars
        /\ UNCHANGED bootVars

\* (the caller holds one token; every token is reachable as the first one)
Create ==
    /\ tk.by = 0
    /\ ticks <= MaxIssueTicks
    /\ \E e \in Engines, life \in Lifetimes, v \in Shown, hid \in Hiddens :
          Issue(e, life, v, hid)

\* the characters an altered token gets in place of character c: the
\* base64url character that differs from c in its lowest bit
FlipSet(c) == IF c < 64 THEN {IF c % 2 = 0 THEN c + 1 ELSE c - 1} ELSE {0}

\* the positions of a field of n characters that get altered: the first, the
\* last, and the last one of every group of four
AlterPositions(n) == {i \in 1..n : i = 1 \/ i = n \/ i % 4 = 0}

\* the token with character i of field f replaced by c
WithChar(str, f, i, c) ==
    LET parts == Split(str)
    IN  Join([parts EXCEPT ![f] = [@ EXCEPT ![i] = c]])

\* someone changes one character of field f of an issued token
Alter(f, name) ==
    /\ tk.by # 0 /\ ~tk.thrown /\ ~tk.cut /\ tk.altered = "none"
    /\ res.by = 0
    /\ \E i \in AlterPositions(Len(Split(token)[f])) :
         \E c \in FlipSet(Split(token)[f][i]) :
            token' = WithChar(token, f, i, c)
    /\ tk' = [tk EXCEPT !.altered = name]
    /\ res' = NoRes
    /\ UNCHANGED <<eng, keys, now, ticks>>
    /\ UNCHANGED otherVars
    /\ UNCHANGED bootVars

AlterSignature == Alter(2, "signature")

AlterPayload == Alter(6, "payload")

\* hwtr.verify(token, h) on engine e; res keeps the latest call only, so a
\* second call without a change in between reaches no further state
VerifyCall ==
    /\ tk.by # 0 /\ ~tk.thrown
    /\ res.by = 0
    /\ \E e \in Engines, hid \in Hiddens :
          res' = [ by |-> e, hasHidden |-> hid[1], h |-> hid[2], at |-> now,
                   r |-> Verify(eng[e], keys[e], token, hid[1], hid[2], now) ]
    /\ UNCHANGED <<eng, keys, now, ticks, token, tk>>
    /\ UNCHANGED otherVars
    /\ UNCHANGED bootVars

\* the clock advances
Tick ==
    /\ ticks < MaxTicks
    /\ \E d \in {1, 60} : now' = now + d
    /\ ticks' = ticks + 1
    /\ res' = NoRes
    /\ UNCHANGED <<eng, keys, token, tk>>
    /\ UNCHANGED otherVars
    /\ UNCHANGED bootVars

Next == Create \/ AlterSignature \/ AlterPayload \/ VerifyCall

Spec == Init /\ [][Next]_vars

NextClock == Create \/ Tick \/ VerifyCall

SpecClock == Init /\ [][NextClock]_vars

\* the visible string of n characters 'x'
Filler(n) == VStr([i \in 1..n |-> 120])

\* the lengths of the long visible strings: with the default options the
\* token for 1484 characters is 2048 long and the one for 1485 is 2049; the
\* other lengths do the same at the limits 512 and 5120
LargeSizes == {316, 317, 1484, 1485, 3788, 3789}

\* hwtr.create(v) with a long string v
CreateLarge ==
    /\ tk.by = 0
    /\ ticks <= MaxIssueTicks
    /\ \E e \in Engines, n \in LargeSizes :
          Issue(e, Life("create", Num(0)), Filler(n), <<FALSE, VUndef>>)

NextSize == Create \/ CreateLarge \/ VerifyCall

SpecSize == Init /\ [][NextSize]_vars

\* ---------------------------------------------------------------- construction

\* crypto.getRandomValues takes at most this many bytes: for more it throws
\* QuotaExceededError and writes nothing
RandomQuota == 65536
quotaExceeded(buffer) == Len(buffer) > RandomQuota

\* clearBuffer: the buffer ends all zero, unless getRandomValues threw
clearBuffer(buffer) ==
    IF quotaExceeded(buffer) THEN buffer ELSE [i \in 1..Len(buffer) |-> 0]

\* the bytes generateKey({id: 'fallback'}, false) draws for engine e
FallbackSecret(e) == SecretOf(10 + e)

\* the keyring specifications the engines are built from
RingChoices ==
    { [keys |-> << >>],
      StringRing,
      [keys |-> << RingKey(Key1, "buffer", SecretOf(1)),
                   RingKey(Key2, "buffer", SecretOf(2)) >>],
      [keys |-> << RingKey(Key1, "string", SecretOf(1)),
                   RingKey(Key2, "buffer", SecretOf(2)) >>],
      [keys |-> << RingKey(Key1, "string", SubSeq(SecretOf(1), 1, 8)),
                   RingKey(DotId, "buffer", SecretOf(2)) >>],
      [keys |-> << RingKey(Key1, "buffer", SubSeq(SecretOf(1), 1, 8)),
                   RingKey(Key2, "string", SecretOf(2)) >>],
      [keys |-> << RingKey(<< >>, "string", SecretOf(1)),
                   RingKey(Key2, "string", SecretOf(2)) >>],
      [keys |-> << RingKey(Key1, "string", SecretOf(1)),
                   RingKey(Key1, "string", SecretOf(2)) >>],
      [keys |-> << RingKey(CurrentId, "string", SecretOf(1)),
                   RingKey(Key2, "string", SecretOf(2)) >>] }

\* the current id engine e is built with
WantOf(e) == IF e = 1 THEN Key1 ELSE Key2

\* id.indexOf('.') > -1
aDot(id) == \E i \in 1..Len(id) : id[i] = Dot

\* importKey as it would be if it took a secret of any length
importKey_anyLength(key) ==
    IF key.id = << >> \/ aDot(key.id) THEN "rejected"
    ELSE "pending"

\* importKey up to its await: "rejected" when the id or the secret is refused,
\* "pending" when crypto.subtle.importKey has been called
importKey(key) ==
    IF key.id = << >> \/ aDot(key.id) THEN "rejected"
    ELSE IF Len(key.secret) < 32 THEN "rejected"
    ELSE "pending"

\* an importKey call the platform holds: it copied the secret when called
ImportOp(e, i, id, secret, direct) ==
    [e |-> e, i |-> i, id |-> id, secret |-> secret, direct |-> direct]

\* a promise reaction on the microtask queue
Job(k, e, op, n) == [k |-> k, e |-> e, op |-> op, n |-> n]
NoOp == ImportOp(0, 0, << >>, << >>, FALSE)

\* the reactions of the entries T of ks that were rejected at once, in the
\* order of the entries
RECURSIVE RejectedJobs(_, _, _)
RejectedJobs(e, ks, T) ==
    IF T = {} THEN << >>
    ELSE LET i == CHOOSE x \in T : \A y \in T : x <= y
         IN  <<Job("settle", e, ImportOp(e, i, ks[i].id, << >>, FALSE), 0)>>
                \o RejectedJobs(e, ks, T \ {i})

InitBoot ==
    /\ ring \in RingChoices
    /\ \E o \in {DefaultOptions, [DefaultOptions EXCEPT !.signatureSize = Num(22)]} :
          eng = [e \in Engines |-> Constructor(o)]
    /\ keys = [e \in Engines |-> << >>]
    /\ boot = [e \in Engines |-> Unbuilt]
    /\ mq = << >>
    /\ ops = {}
    /\ now = Epoch
    /\ ticks = 0
    /\ token = << >>
    /\ tk = NoToken
    /\ res = NoRes
    /\ dec = NoDec
    /\ FormatsRegistered
    /\ bufs = << >>
    /\ pure = NoPure
    /\ calls = << >>
    /\ hooks = BuiltinHooks

\* Hwtr.factory(spec, options) up to its first await: new Hwtr runs importKeys
\* up to its first await, then ready() runs up to its await. The second
\* engine is built once the first factory promise has resolved.
Factory(e) ==
    /\ boot[e].caller = "none"
    /\ e # 1 => boot[1].caller = "ready"
    /\ LET ks == ring.keys
           n == Len(ks)
           sent == {i \in 1..n : importKey(ks[i]) = "pending"}
           \* importKey's finally clears the buffer it threw over
           cleared == {i \in 1..n : ~aDot(ks[i].id) /\ ks[i].id # << >>
                                    /\ Len(ks[i].secret) < 32 /\ ks[i].kind = "buffer"}
       IN  IF n = 0
           THEN /\ boot' = [boot EXCEPT ![e] = [@ EXCEPT !.ik = "awaitGen",
                                !.rd = "awaitNull", !.caller = "waiting"]]
                /\ mq' = mq \o <<Job("ikGen", e, NoOp, 0), Job("rdNull", e, NoOp, 0)>>
                /\ UNCHANGED <<ring, ops>>
           ELSE /\ ring' = [ring EXCEPT !.keys =
                               [i \in 1..n |-> IF i \in cleared
                                               THEN [ks[i] EXCEPT !.secret = clearBuffer(@)]
                                               ELSE ks[i]]]
                /\ ops' = ops \cup {ImportOp(e, i, ks[i].id, ks[i].secret, FALSE) : i \in sent}
                /\ mq' = mq \o RejectedJobs(e, ks, (1..n) \ sent)
                /\ boot' = [boot EXCEPT ![e] = [@ EXCEPT !.ik = "awaitAll", !.rd = "awaitAll",
                                !.ready = "promise", !.want = WantOf(e), !.left = n,
                                !.caller = "waiting"]]
    /\ UNCHANGED <<eng, keys, now, ticks, token, tk, res>>
    /\ UNCHANGED otherVars

FactoryCall == \E e \in Engines : Factory(e)

\* the platform settles a crypto.subtle.importKey call
ImportDone ==
    /\ \E op \in ops :
          /\ ops' = ops \ {op}
          /\ mq' = Append(mq, Job("impCont", op.e, op, 0))
    /\ UNCHANGED <<eng, keys, now, ticks, token, tk, res, ring, boot>>
    /\ UNCHANGED otherVars

\* the head of the microtask queue is a job of kind k
Runs(k) == mq # << >> /\ Head(mq).k = k

\* importKeys after await Hwtr.generateKey (no keys given): keys = [fallback]
IkGen ==
    /\ Runs("ikGen")
    /\ LET e == Head(mq).e
       IN  /\ ops' = ops \cup {ImportOp(e, 1, FallbackId, FallbackSecret(e), FALSE)}
           /\ boot' = [boot EXCEPT ![e] = [@ EXCEPT !.ik = "awaitAll", !.ready = "promise",
                            !.want = FallbackId, !.left = 1]]
    /\ mq' = Tail(mq)
    /\ UNCHANGED <<eng, keys, now, ticks, token, tk, res, ring>>
    /\ UNCHANGED otherVars

\* ready() after await this.#ready when #ready was null
RdNull ==
    /\ Runs("rdNull")
    /\ LET e == Head(mq).e
       IN  boot' = [boot EXCEPT ![e] = [@ EXCEPT !.ready = "null", !.rd = "resolved"]]
    /\ mq' = Append(Tail(mq), Job("factory", Head(mq).e, NoOp, 2))
    /\ UNCHANGED <<eng, keys, now, ticks, token, tk, res, ring, ops>>
    /\ UNCHANGED otherVars

\* importKey after await crypto.subtle.importKey: return $, and the finally
\* clears bfr, which for a raw-buffer secret is a view of the caller's buffer
ImpCont ==
    /\ Runs("impCont")
    /\ LET op == Head(mq).op
           inRing == op.id # FallbackId
       IN  /\ ring' = IF inRing /\ ring.keys[op.i].kind = "buffer"
                      THEN [ring EXCEPT !.keys[op.i].secret = clearBuffer(@)]
                      ELSE ring
           /\ mq' = Append(Tail(mq), Job(IF op.direct THEN "ikFb" ELSE "impThen", op.e, op, 0))
    /\ UNCHANGED <<eng, keys, now, ticks, token, tk, res, boot, ops>>
    /\ UNCHANGED otherVars

\* the .then of importKeys: curr and this.#keys[key.id]
ImpThen ==
    /\ Runs("impThen")
    /\ LET op == Head(mq).op
           e == op.e
           key == MakeKey(op.id, op.secret, eng[e].hash)
           takes == op.id = boot[e].want \/ boot[e].curr = NoKey
       IN  /\ boot' = [boot EXCEPT ![e] = [@ EXCEPT !.cur = IF takes THEN op.id ELSE @,
                            !.curr = IF takes THEN key ELSE @,
                            !.wins = @ + 1]]
           /\ keys' = [keys EXCEPT ![e] = (op.id :> key) @@ @]
           /\ mq' = Append(Tail(mq), Job("settle", e, op, 0))
    /\ UNCHANGED <<eng, now, ticks, token, tk, res, ring, ops>>
    /\ UNCHANGED otherVars

\* Promise.allSettled takes one more result; with the last one #ready
\* resolves and its reactions are queued in the order they were registered
Settle ==
    /\ Runs("settle")
    /\ LET e == Head(mq).e
           last == boot[e].left = 1
       IN  /\ boot' = [boot EXCEPT ![e] = [@ EXCEPT !.left = @ - 1]]
           /\ mq' = Tail(mq)
                      \o (IF last THEN <<Job("ikAll", e, NoOp, 0)>> ELSE << >>)
                      \o (IF last /\ boot[e].rd = "awaitAll"
                          THEN <<Job("rdAll", e, NoOp, 0)>> ELSE << >>)
    /\ UNCHANGED <<eng, keys, now, ticks, token, tk, res, ring, ops>>
    /\ UNCHANGED otherVars

\* importKeys after await this.#ready
IkAll ==
    /\ Runs("ikAll")
    /\ LET e == Head(mq).e
       IN  IF boot[e].wins = 0
           THEN /\ boot' = [boot EXCEPT ![e] = [@ EXCEPT !.ik = "awaitFbGen"]]
                /\ mq' = Append(Tail(mq), Job("ikFbGen", e, NoOp, 0))
                /\ UNCHANGED keys
           ELSE /\ boot' = [boot EXCEPT ![e] = [@ EXCEPT !.ik = "done"]]
                /\ keys' = [keys EXCEPT ![e] = (CurrentId :> boot[e].curr) @@ @]
                /\ mq' = Tail(mq)
    /\ UNCHANGED <<eng, now, ticks, token, tk, res, ring, ops>>
    /\ UNCHANGED otherVars

\* importKeys after await Hwtr.generateKey (every import failed)
IkFbGen ==
    /\ Runs("ikFbGen")
    /\ LET e == Head(mq).e
       IN  /\ ops' = ops \cup {ImportOp(e, 0, FallbackId, FallbackSecret(e), TRUE)}
           /\ boot' = [boot EXCEPT ![e] = [@ EXCEPT !.ik = "awaitFbImport"]]
    /\ mq' = Tail(mq)
    /\ UNCHANGED <<eng, keys, now, ticks, token, tk, res, ring>>
    /\ UNCHANGED otherVars

\* importKeys after await this.importKey(fallbackKey, 0)
IkFb ==
    /\ Runs("ikFb")
    /\ LET op == Head(mq).op
           e == op.e
           key == MakeKey(op.id, op.secret, eng[e].hash)
       IN  /\ boot' = [boot EXCEPT ![e] = [@ EXCEPT !.ik = "done", !.cur = op.id,
                            !.curr = key]]
           /\ keys' = [keys EXCEPT ![e] = (CurrentId :> key) @@ (op.id :> key) @@ @]
    /\ mq' = Tail(mq)
    /\ UNCHANGED <<eng, now, ticks, token, tk, res, ring, ops>>
    /\ UNCHANGED otherVars

\* ready() after await this.#ready when #ready was the allSettled promise
RdAll ==
    /\ Runs("rdAll")
    /\ LET e == Head(mq).e
       IN  boot' = [boot EXCEPT ![e] = [@ EXCEPT !.ready = "null", !.rd = "resolved"]]
    /\ mq' = Append(Tail(mq), Job("factory", Head(mq).e, NoOp, 2))
    /\ UNCHANGED <<eng, keys, now, ticks, token, tk, res, ring, ops>>
    /\ UNCHANGED otherVars

\* the promise of factory takes the promise of ready(): two reactions, and
\* with the third the caller's await goes on
FactoryHop ==
    /\ Runs("factory")
    /\ LET e == Head(mq).e
           n == Head(mq).n
       IN  IF n > 0
           THEN /\ mq' = Append(Tail(mq), Job("factory", e, NoOp, n - 1))
                /\ UNCHANGED boot
           ELSE /\ mq' = Tail(mq)
                /\ boot' = [boot EXCEPT ![e] = [@ EXCEPT !.caller = "ready"]]
    /\ UNCHANGED <<eng, keys, now, ticks, token, tk, res, ring, ops>>
    /\ UNCHANGED otherVars

\* the caller, holding engine e from await Hwtr.factory, calls create
UseCreate ==
    /\ tk.by = 0
    /\ \E e \in Engines, hid \in {<<FALSE, VUndef>>, <<TRUE, ValB>>} :
          /\ boot[e].caller = "ready"
          /\ Issue(e, Life("create", Num(0)), ValA, hid)

\* the caller, holding engine e from await Hwtr.factory, calls verify
UseVerify ==
    /\ tk.by # 0 /\ ~tk.thrown
    /\ res.by = 0
    /\ \E e \in Engines, hid \in {<<FALSE, VUndef>>, <<TRUE, ValB>>} :
          /\ boot[e].caller = "ready"
          /\ res' = [ by |-> e, hasHidden |-> hid[1], h |-> hid[2], at |-> now,
                      r |-> Verify(eng[e], keys[e], token, hid[1], hid[2], now) ]
    /\ UNCHANGED <<eng, keys, now, ticks, token, tk>>
    /\ UNCHANGED otherVars
    /\ UNCHANGED bootVars

NextInit ==
    \/ FactoryCall \/ ImportDone
    \/ IkGen \/ RdNull \/ ImpCont \/ ImpThen \/ Settle \/ IkAll \/ IkFbGen \/ IkFb \/ RdAll
    \/ FactoryHop
    \/ UseCreate \/ UseVerify

SpecInit == InitBoot /\ [][NextInit]_vars

\* ---------------------------------------------------------------- tokens from anywhere

\* the options of the engines that are handed tokens from anywhere
CraftOptions ==
    { DefaultOptions,
      [DefaultOptions EXCEPT !.errorOnInvalid = TRUE],
      [DefaultOptions EXCEPT !.errorOnExpired = TRUE],
      [DefaultOptions EXCEPT !.errorOnEncoding = FALSE],
      [DefaultOptions EXCEPT !.errorOnGenerate = FALSE, !.errorOnEncoding = FALSE],
      [DefaultOptions EXCEPT !.errors = TRUE] }

InitCraft ==
    /\ \E o \in CraftOptions :
          /\ eng = [e \in Engines |-> Constructor(o)]
          /\ keys = [e \in Engines |-> ImportedKeys(Constructor(o).hash, Key1)]
    /\ boot = [e \in Engines |-> Built(Key1)]
    /\ ring = StringRing
    /\ mq = << >>
    /\ ops = {}
    /\ now = Epoch
    /\ ticks = 0
    /\ token = << >>
    /\ tk = NoToken
    /\ res = NoRes
    /\ dec = NoDec
    /\ FormatsRegistered
    /\ bufs = << >>
    /\ pure = NoPure
    /\ calls = << >>
    /\ hooks = BuiltinHooks

\* the fields a token from anywhere is made of
CraftPrefix == {Prefix, <<49, 48, 45>>}
UnknownKeyId == <<36, 30, 50, 61>>
CraftKid == {Key1, Key2, CurrentId, ConstructorName, UnknownKeyId, << >>}
CraftExp(t) == {ToDecimal(t + 60), ToDecimal(t - 1), ToDecimal(t - 100), <<26, 27>>}
CraftFormat == {FmtJ, << >>, FmtZZ, ConstructorName}
CraftPayload == {bufferToBase64Url(codecEncode(ValA)), <<30, 0>>}

\* a signature of full length that no key gave
NoSignature == [i \in 1..43 |-> 0]

\* someone assembles a token field by field; signed tells whether they hold
\* key1 and sign the fields they chose, as _createWith does
Craft ==
    /\ tk.by = 0
    /\ \E prefix \in CraftPrefix, signed \in BOOLEAN, kid \in CraftKid,
          exp \in CraftExp(now), format \in CraftFormat, payload \in CraftPayload :
          LET sig == IF signed
                     THEN generateSig(eng[1], keys[1][Key1],
                                      Join(signedFields(exp, format, payload, FALSE, << >>)))
                     ELSE NoSignature
          IN  /\ token' = Join(<<prefix, sig, kid, exp, format, payload>>)
              /\ tk' = [NoToken EXCEPT !.by = 1, !.altered = "crafted", !.v = ValA,
                                       !.exp = NumberOrZero(exp), !.at = now]
    /\ UNCHANGED <<eng, keys, now, ticks, res>>
    /\ UNCHANGED bootVars
    /\ UNCHANGED otherVars

\* the inputs that are no token at all: too few fields, too long, not a string
OddInputs ==
    { [name |-> "short", text |-> Join(<<Prefix, <<26, 27, 28, 29, 30, 31>> >>)],
      [name |-> "long", text |-> Join(<<Prefix, [i \in 1..5200 |-> 0]>>)],
      [name |-> "nonstring", text |-> << >>] }

\* someone hands over something that is no token
CraftOdd ==
    /\ tk.by = 0
    /\ \E odd \in OddInputs :
          /\ token' = odd.text
          /\ tk' = [NoToken EXCEPT !.by = 1, !.altered = odd.name, !.at = now]
    /\ UNCHANGED <<eng, keys, now, ticks, res>>
    /\ UNCHANGED bootVars
    /\ UNCHANGED otherVars

\* hwtr.verify(input, h) on engine 1
VerifyCraft ==
    /\ tk.by # 0
    /\ res.by = 0
    /\ \E hid \in {<<FALSE, VUndef>>, <<TRUE, ValB>>} :
          res' = [ by |-> 1, hasHidden |-> hid[1], h |-> hid[2], at |-> now,
                   r |-> verify(eng[1], keys[1],
                                [str |-> tk.altered # "nonstring", text |-> token],
                                hid[1], hid[2], now) ]
    /\ UNCHANGED <<eng, keys, now, ticks, token, tk>>
    /\ UNCHANGED bootVars
    /\ UNCHANGED otherVars

\* hwtr.decode(input) on engine 1, for a string
DecodeCraft ==
    /\ tk.by # 0 /\ tk.altered # "nonstring"
    /\ dec.by = 0
    /\ dec' = [by |-> 1, r |-> decode(eng[1], token)]
    /\ UNCHANGED <<eng, keys, now, ticks, token, tk, res>>
    /\ UNCHANGED bootVars
    /\ UNCHANGED regVars
    /\ UNCHANGED <<bufs, pure, calls, hooks>>

NextCraft == Craft \/ CraftOdd \/ VerifyCraft \/ DecodeCraft

SpecCraft == InitCraft /\ [][NextCraft]_vars

\* ---------------------------------------------------------------- registrations

\* at most this many registerFormat calls, and changes to codec objects
MaxRegister == 3
MaxMutate == 2

\* the class is defined and nothing is registered; the caller holds two
\* codec objects
InitRegistry ==
    /\ eng = [e \in Engines |-> Constructor(DefaultOptions)]
    /\ keys = [e \in Engines |-> ImportedKeys(Constructor(DefaultOptions).hash, Key1)]
    /\ boot = [e \in Engines |-> Built(Key1)]
    /\ ring = StringRing
    /\ mq = << >>
    /\ ops = {}
    /\ now = Epoch
    /\ ticks = 0
    /\ token = << >>
    /\ tk = NoToken
    /\ res = NoRes
    /\ dec = NoDec
    /\ registry = Registry0
    /\ objs = Formats
    /\ rf = NoCall
    /\ bufs = << >>
    /\ pure = NoPure
    /\ calls = << >>
    /\ hooks = BuiltinHooks

\* Hwtr.registerFormat(name, codec), codec one of the caller's objects or
\* undefined
Register ==
    /\ rf.n < MaxRegister
    /\ \E name \in RegNames, o \in 0..2 :
          LET codec == IF o = 0 THEN Undefined
                       ELSE [id |-> o, encode |-> objs[o].encode, decode |-> objs[o].decode]
              r == registerFormat(registry, name, codec)
          IN  /\ registry' = r.registry
              /\ rf' = [ n |-> rf.n + 1, m |-> rf.m, name |-> name, codec |-> codec,
                         out |-> r.out, errors |-> r.errors, prev |-> registry,
                         first |-> IF r.out = "this" /\ rf.first[name] = Undefined
                                   THEN [rf.first EXCEPT ![name] = codec]
                                   ELSE rf.first ]
    /\ UNCHANGED <<eng, keys, now, ticks, token, tk, res, dec, objs, bufs, pure, calls, hooks>>
    /\ UNCHANGED bootVars

\* the caller assigns to a member of one of their codec objects; a stored
\* codec changes with it only if it is that very object
Mutate ==
    /\ rf.m < MaxMutate
    /\ \E o \in 1..2, f \in Fns, member \in {"encode", "decode"} :
          /\ objs[o][member] # f
          /\ objs' = [objs EXCEPT ![o][member] = f]
          /\ registry' = [n \in RegNames |->
                            IF registry[n].t = "codec" /\ registry[n].of = o
                            THEN [registry[n] EXCEPT ![member] = f]
                            ELSE registry[n]]
    /\ rf' = [rf EXCEPT !.m = @ + 1]
    /\ UNCHANGED <<eng, keys, now, ticks, token, tk, res, dec, bufs, pure, calls, hooks>>
    /\ UNCHANGED bootVars

NextRegistry == Register \/ Mutate

SpecRegistry == InitRegistry /\ [][NextRegistry]_vars

\* ---------------------------------------------------------------- buffers

\* at most this many importKey and generate calls
MaxCalls == 2

\* one engine, with or without errorOnGenerate, its keys imported
InitScrub ==
    /\ \E o \in {DefaultOptions, [DefaultOptions EXCEPT !.errorOnGenerate = FALSE]} :
          /\ eng = [e \in Engines |-> Constructor(o)]
          /\ keys = [e \in Engines |-> ImportedKeys(Constructor(o).hash, Key1)]
    /\ boot = [e \in Engines |-> Built(Key1)]
    /\ ring = StringRing
    /\ mq = << >>
    /\ ops = {}
    /\ now = Epoch
    /\ ticks = 0
    /\ token = << >>
    /\ tk = NoToken
    /\ res = NoRes
    /\ dec = NoDec
    /\ FormatsRegistered
    /\ bufs = << >>
    /\ pure = NoPure
    /\ calls = << >>
    /\ hooks = BuiltinHooks

\* a secret of n bytes
Bytes(n) == [i \in 1..n |-> 65]

\* the key entries importKey is called with; a secret of kind "other" is
\* neither a string nor a thing with a byteLength
ScrubKeys ==
    { RingKey(Key1, "string", Bytes(32)), RingKey(Key1, "string", Bytes(8)),
      RingKey(Key1, "buffer", Bytes(32)), RingKey(Key1, "buffer", Bytes(8)),
      RingKey(Key1, "buffer", Bytes(RandomQuota + 1)),
      RingKey(Key1, "other", << >>),
      RingKey(<< >>, "string", Bytes(32)), RingKey(DotId, "buffer", Bytes(32)) }

\* the texts generate is called with: the signed text of a token, a text of
\* 65536 characters and one of 65537
ScrubTexts ==
    { Join(signedFields(ToDecimal(Epoch + 60), FmtJ, bufferToBase64Url(codecEncode(ValA)),
                        FALSE, << >>)),
      Bytes(RandomQuota), Bytes(RandomQuota + 1) }

\* a call and its buffer: made says whether the call made one, stage how far
\* the call has come, out how it ended
Buffer(by, made, bytes, stage, out) ==
    [by |-> by, made |-> made, bytes |-> bytes, stage |-> stage, out |-> out]

\* the finally of importKey and of generate: clearBuffer, which may throw
Finally(b, out) ==
    [b EXCEPT !.bytes = clearBuffer(@), !.stage = "settled",
              !.out = IF quotaExceeded(b.bytes) THEN "QuotaExceededError" ELSE out]

\* hwtr.importKey(key, i) up to its await, or to its end when it throws
ImportKeyCall ==
    /\ Len(bufs) < MaxCalls
    /\ \A i \in 1..Len(bufs) : bufs[i].stage = "settled"
    /\ \E key \in ScrubKeys :
          LET bfr == IF key.kind = "string" THEN stringToBuffer(key.secret) ELSE key.secret
              b == Buffer("importKey", TRUE, bfr, "awaiting", "")
          IN  bufs' = Append(bufs,
                 IF key.id = << >> \/ aDot(key.id)
                 THEN Buffer("importKey", FALSE, << >>, "settled", "rejected")
                 ELSE IF key.kind = "other"
                 THEN Buffer("importKey", FALSE, << >>, "settled", "rejected")
                 ELSE IF importKey(key) = "rejected" THEN Finally(b, "rejected")
                 ELSE b)
    /\ UNCHANGED <<eng, keys, now, ticks, token, tk, res, dec, pure, calls, hooks>>
    /\ UNCHANGED bootVars
    /\ UNCHANGED regVars

\* hwtr.generate(text, {key}) up to its await, or to its end when key is
\* undefined and key.key throws
GenerateCall ==
    /\ Len(bufs) < MaxCalls
    /\ \A i \in 1..Len(bufs) : bufs[i].stage = "settled"
    /\ \E text \in ScrubTexts, hasKey \in BOOLEAN :
          LET b == Buffer("generate", TRUE, stringToBuffer(text), "awaiting", "")
          IN  bufs' = Append(bufs,
                 IF hasKey THEN b
                 ELSE Finally(b, IF eng[1].errorOnGenerate THEN "thrown" ELSE "returned Error"))
    /\ UNCHANGED <<eng, keys, now, ticks, token, tk, res, dec, pure, calls, hooks>>
    /\ UNCHANGED bootVars
    /\ UNCHANGED regVars

\* the platform settles crypto.subtle.importKey or crypto.subtle.sign, either
\* way, and the call runs to its end
PlatformSettles ==
    /\ bufs # << >> /\ bufs[Len(bufs)].stage = "awaiting"
    /\ \E resolved \in BOOLEAN :
          LET b == bufs[Len(bufs)]
              out == IF resolved THEN "resolved"
                     ELSE IF b.by = "importKey" THEN "rejected"
                     ELSE IF eng[1].errorOnGenerate THEN "thrown"
                     ELSE "returned Error"
          IN  bufs' = [bufs EXCEPT ![Len(bufs)] = Finally(b, out)]
    /\ UNCHANGED <<eng, keys, now, ticks, token, tk, res, dec, pure, calls, hooks>>
    /\ UNCHANGED bootVars
    /\ UNCHANGED regVars

NextScrub == ImportKeyCall \/ GenerateCall \/ PlatformSettles

SpecScrub == InitScrub /\ [][NextScrub]_vars

\* ---------------------------------------------------------------- key generation

\* what only the static helpers and the codecs leave alone: everything else
restVars == <<eng, keys, now, ticks, token, tk, res, dec, registry, objs, rf, bufs, calls, hooks>>

\* crypto.getRandomValues(new Uint8Array(len)), every byte r
Random(len, r) == [i \in 1..len |-> r]

\* a secret argument: nothing (the default 0), a number, a string, bytes
Secret(kind, n, s) == [kind |-> kind, n |-> n, s |-> s]

\* Hwtr.generateKey({id, secret}, asString) when the random bytes are all r
generateKey(id, secret, asString, r) ==
    LET min == 32
        made ==
            IF secret.kind \in {"none", "number"}
            THEN Secret("buffer", 0, Random(IF secret.n < min THEN min ELSE secret.n, r))
            ELSE IF secret.kind = "string"
            THEN IF Len(secret.s) < min
                 THEN Secret("string", 0,
                             secret.s \o bufferToBase64Url(Random(Len(secret.s), r)))
                 ELSE secret
            ELSE IF Len(secret.s) < min
                 THEN Secret("buffer", 0, secret.s \o Random(min - Len(secret.s), r))
                 ELSE secret
    IN  [ id |-> id,
          kind |-> IF made.kind = "buffer" /\ asString THEN "string" ELSE made.kind,
          secret |-> IF made.kind = "buffer" /\ asString
                     THEN bufferToBase64Url(made.s) ELSE made.s ]

\* String.prototype.replaceAll('.', '_')
replaceAll(str) == [i \in 1..Len(str) |-> IF str[i] = Dot THEN 63 ELSE str[i]]

\* an entry of the items array: an id or none, a secret or none
Item(hasId, id, secret) == [hasId |-> hasId, id |-> id, secret |-> secret]
NoItem == Item(FALSE, << >>, Secret("none", 0, << >>))

\* Hwtr.generateKeys(items, current) for an array of items (a number n is
\* the array of n entries 0), when the random bytes are all r
generateKeys(items, current, r) ==
    LET keyN(i) == <<36, 30, 50>> \o ToDecimal(i)
        list == [i \in 1..Len(items) |->
                   generateKey(replaceAll(IF items[i].hasId THEN items[i].id ELSE keyN(i)),
                               items[i].secret, TRUE, r)]
        hash == {list[i].id : i \in 1..Len(list)}
        cur == replaceAll(current)
    IN  [ current |-> IF ~(cur \in hash \/ cur \in ObjectPrototype) /\ Len(list) > 0
                      THEN list[1].id ELSE cur,
          keys |-> list ]

\* the secrets the helpers are called with
Text(n) == [i \in 1..n |-> 26]
KeygenSecrets ==
    {Secret("none", 0, << >>)}
       \cup {Secret("number", n, << >>) : n \in {0, 16, 32, 40}}
       \cup {Secret("string", 0, Text(n)) : n \in {0, 5, 13, 14, 32, 40}}
       \cup {Secret("buffer", 0, Text(n)) : n \in {0, 8, 32, 40}}

\* the item arrays generateKeys is called with: 2, 1, and arrays with ids
\* and secrets of the caller
KeygenItems ==
    { <<NoItem, NoItem>>, <<NoItem>>,
      <<Item(TRUE, DotId, Secret("none", 0, << >>)), NoItem>>,
      <<Item(TRUE, Key1, Secret("string", 0, Text(5))),
        Item(TRUE, Key1, Secret("buffer", 0, Text(8)))>>,
      <<Item(TRUE, Key2, Secret("string", 0, Text(40)))>> }

InitKeygen ==
    /\ eng = [e \in Engines |-> Constructor(DefaultOptions)]
    /\ keys = [e \in Engines |-> ImportedKeys(Constructor(DefaultOptions).hash, Key1)]
    /\ boot = [e \in Engines |-> Built(Key1)]
    /\ ring = StringRing
    /\ mq = << >>
    /\ ops = {}
    /\ now = Epoch
    /\ ticks = 0
    /\ token = << >>
    /\ tk = NoToken
    /\ res = NoRes
    /\ dec = NoDec
    /\ FormatsRegistered
    /\ bufs = << >>
    /\ pure = NoPure
    /\ calls = << >>
    /\ hooks = BuiltinHooks

\* Hwtr.generateKey({id, secret}, asString)
GenerateKey ==
    /\ \E id \in {Key1, DotId}, secret \in KeygenSecrets, asString \in BOOLEAN,
          r \in {0, 255} :
          pure' = [ op |-> "generateKey", secret |-> secret, asString |-> asString,
                    out |-> generateKey(id, secret, asString, r) ]
    /\ UNCHANGED restVars
    /\ UNCHANGED bootVars

\* Hwtr.generateKeys(items, current)
GenerateKeys ==
    /\ \E items \in KeygenItems, r \in {0, 255},
          current \in {<< >>, Key1, Key2, DotId, ConstructorName} :
          pure' = [ op |-> "generateKeys", items |-> items, current |-> current,
                    out |-> generateKeys(items, current, r) ]
    /\ UNCHANGED restVars
    /\ UNCHANGED bootVars

NextKeygen == GenerateKey \/ GenerateKeys

SpecKeygen == InitKeygen /\ [][NextKeygen]_vars

\* ---------------------------------------------------------------- lifetimes

\* the configured lifetimes of the engines that are asked for lifetimes
LifeOptions ==
    { [DefaultOptions EXCEPT !.expiresInSeconds = x] :
         x \in {Num(60), Num(0), Frac(1, 5), NaN, Num(40000000)} }

InitLife ==
    /\ \E o \in LifeOptions :
          /\ eng = [e \in Engines |-> Constructor(o)]
          /\ keys = [e \in Engines |-> ImportedKeys(Constructor(o).hash, Key1)]
    /\ boot = [e \in Engines |-> Built(Key1)]
    /\ ring = StringRing
    /\ mq = << >>
    /\ ops = {}
    /\ now = Epoch
    /\ ticks = 0
    /\ token = << >>
    /\ tk = NoToken
    /\ res = NoRes
    /\ dec = NoDec
    /\ FormatsRegistered
    /\ bufs = << >>
    /\ pure = NoPure
    /\ calls = << >>
    /\ hooks = BuiltinHooks

\* create(), createWith(x) for numbers and for text that is no number, and
\* createWith(undefined)
LifeChoices ==
    { Life("create", Num(0)), Life("createWithUndefined", Num(0)) }
       \cup { Life("createWith", x) :
                 x \in {Num(0), Num(1), Num(300), Frac(1, 5), Frac(0, 5), NaN, Num(0 - 5),
                        Num(31557600), Frac(31557600, 1), Num(31557601)} }

\* hwtr.create(v, h), hwtr.createWith(x, v, h)
CreateLife ==
    /\ tk.by = 0
    /\ \E life \in LifeChoices, v \in {ValA, ValC}, hid \in {<<FALSE, VUndef>>, <<TRUE, ValB>>} :
          Issue(1, life, v, hid)

NextLife == CreateLife \/ VerifyCall

SpecLife == InitLife /\ [][NextLife]_vars

\* ---------------------------------------------------------------- signature sizes

\* the hash and signatureSize options of the engines whose signatures are
\* measured; "MD5" is no hash the engine supports
SigOptions ==
    { [DefaultOptions EXCEPT !.hash = h, !.signatureSize = x] :
         h \in {"SHA-256", "SHA-384", "SHA-512", "MD5"},
         x \in {Num(0), Num(0 - 3), Frac(0, 5), Num(11), Num(22), Num(30), Frac(30, 5),
                Num(43), Num(50), Num(64), Num(86), Num(100), NaN} }

InitSig ==
    /\ \E o \in SigOptions :
          /\ eng = [e \in Engines |-> Constructor(o)]
          /\ keys = [e \in Engines |-> ImportedKeys(Constructor(o).hash, Key1)]
    /\ boot = [e \in Engines |-> Built(Key1)]
    /\ ring = StringRing
    /\ mq = << >>
    /\ ops = {}
    /\ now = Epoch
    /\ ticks = 0
    /\ token = << >>
    /\ tk = NoToken
    /\ res = NoRes
    /\ dec = NoDec
    /\ FormatsRegistered
    /\ bufs = << >>
    /\ pure = NoPure
    /\ calls = << >>
    /\ hooks = BuiltinHooks

\* hwtr.create(v, h), hwtr.createWith(300, v, h)
CreateSig ==
    /\ tk.by = 0
    /\ \E life \in {Life("create", Num(0)), Life("createWith", Num(300))},
          v \in {ValA, ValC}, hid \in {<<FALSE, VUndef>>, <<TRUE, ValB>>} :
          Issue(1, life, v, hid)

NextSig == CreateSig \/ VerifyCall

SpecSig == InitSig /\ [][NextSig]_vars

\* ---------------------------------------------------------------- the extended codec at work

\* sequences of at most n members of S
UpTo(S, n) == UNION {[1..k -> S] : k \in 0..n}

\* numbers the values are built from: the sentinel, the discriminators of a
\* Date, a BigInt and a Set, a byte above 127
JxNumbers == {Sentinel, 0, 1, 2, 3, 200}

\* what an element of the typed array with this code can hold
Held(code, n) == IF Row(code).big THEN VBigInt(n) ELSE VNum(n)
Fits(code, n) == toElement(code, Held(code, n)) = Held(code, n)

Distinct(q) == \A i, j \in 1..Len(q) : q[i] = q[j] => i = j

\* the flat values: JSON scalars, Dates, BigInts, and the arrays, Sets,
\* typed arrays of every element type and ArrayBuffers of up to three of the
\* numbers, Maps of up to two entries
JxFlat ==
    {VNull, VNum(5), VNum(Sentinel), VStr(<<97>>)}
       \cup {VDate(ms) : ms \in {0, 5, 123456789, 0 - 1}}
       \cup {VBigInt(n) : n \in {0, 5, Sentinel, 123456789}}
       \cup {VArr([i \in 1..Len(q) |-> VNum(q[i])]) : q \in UpTo(JxNumbers, 3)}
       \cup {VSet([i \in 1..Len(q) |-> VNum(q[i])]) :
                q \in {p \in UpTo(JxNumbers, 3) : Distinct(p)}}
       \cup UNION {{VTyped(c, [i \in 1..Len(q) |-> Held(c, q[i])]) :
                       q \in UpTo({n \in JxNumbers : Fits(c, n)}, 3)} :
                   c \in 0..11}
       \cup {VBuffer([i \in 1..Len(q) |-> VNum(q[i])]) :
                q \in UpTo({n \in JxNumbers : n >= 0}, 3)}
       \cup {VMap([i \in 1..Len(q) |-> VArr(<<q[i][1], q[i][2]>>)]) :
                q \in {p \in UpTo({VNum(1), VStr(<<97>>)}
                                     \X {VNum(Sentinel), VNull, VNum(5)}, 2) :
                          \A i, j \in 1..Len(p) : p[i][1] = p[j][1] => i = j}}

\* values inside values
JxNested ==
    { VArr(<<VDate(5), VSet(<<VNum(1), VNum(2)>>)>>),
      VArr(<<VArr(<<VNum(1)>>), VStr(<<97>>), VNull>>),
      VSet(<<VSet(<<VNum(1)>>), VDate(0)>>),
      VSet(<<VArr(<<VNum(1), VNum(2)>>), VArr(<<VNum(1), VNum(2)>>)>>),
      VSet(<<VNum(Sentinel), VBigInt(1), VNum(1)>>),
      VMap(<<VArr(<<VStr(<<97>>), VTyped(0, <<VNum(1), VNum(0 - 2)>>)>>)>>),
      VMap(<<VArr(<<VDate(5), VBuffer(<<VNum(200)>>)>>),
             VArr(<<VDate(5), VBigInt(2)>>)>>),
      VMap(<<VArr(<<VNum(Sentinel), VMap(<<VArr(<<VNum(1), VNum(2)>>)>>)>>)>>),
      VArr(<<VTyped(9, <<VNum(3), VNum(0 - 4)>>), VBuffer(<< >>),
             VTyped(10, <<VBigInt(0 - 1)>>)>>),
      VMap(<<VArr(<<VNum(Sentinel), VNum(3)>>)>>),
      VArr(<<VNum(Sentinel), VDate(5)>>),
      VArr(<<VBigInt(Sentinel), VNum(1), VNum(0)>>) }

JxValues == JxFlat \cup JxNested

\* what follows the sentinel in the texts that are decoded: discriminators
\* and what is none, then up to two more elements
JxTypes ==
    {VNum(d) : d \in {0, 1, 2, 3, 4, 5, 7, 8, 9}} \cup {VStr(<<49>>), VNull}
JxRest ==
    {VNum(n) : n \in {0, 3, 0 - 1, 12}}
       \cup {VStr(s) : s \in {<<53>>, <<122, 122>>, ArrayName, FunctionName,
                             ConstructorKey, LengthName}}
       \cup { VNull, VArr(<< >>), VArr(<<VNum(1), VNum(2)>>),
              VArr(<<VArr(<<VNum(1), VNum(2)>>)>>),
              VArr(<<VNum(Sentinel), VNum(2), VStr(<<57>>)>>) }

\* the parsed texts: tagged and almost tagged arrays, and arrays with
\* another first element
JxTrees ==
    {VArr(<<VNum(Sentinel), d>> \o r) : d \in JxTypes, r \in UpTo(JxRest, 2)}
       \cup {VArr(<<VNum(Sentinel)>>), VArr(<< >>), VNum(Sentinel),
              VArr(<<VNum(7), VNum(1), VNum(0)>>),
              VArr(<<VStr(<<45, 55>>), VNum(1), VNum(0)>>),
              VArr(<<VArr(<<VNum(Sentinel)>>), VNum(1), VNum(0)>>),
              VArr(<<VNum(1), VArr(<<VNum(Sentinel), VNum(3), VArr(<<VNum(1)>>)>>)>>) }

InitJx ==
    /\ eng = [e \in Engines |-> Constructor(DefaultOptions)]
    /\ keys = [e \in Engines |-> ImportedKeys(Constructor(DefaultOptions).hash, Key1)]
    /\ boot = [e \in Engines |-> Built(Key1)]
    /\ ring = StringRing
    /\ mq = << >>
    /\ ops = {}
    /\ now = Epoch
    /\ ticks = 0
    /\ token = << >>
    /\ tk = NoToken
    /\ res = NoRes
    /\ dec = NoDec
    /\ FormatsRegistered
    /\ bufs = << >>
    /\ pure = NoPure
    /\ calls = << >>
    /\ hooks = BuiltinHooks

\* one call of the codec, recorded with what it was given and what it gave
JxCall(call) ==
    /\ pure = NoPure
    /\ pure' = call
    /\ UNCHANGED restVars
    /\ UNCHANGED bootVars

\* codecJSONextended.decode(codecJSONextended.encode(v))
JxRoundTrip ==
    \E v \in JxValues :
       JxCall([ op |-> "jx", v |-> v, text |-> jxEncode(v),
                out |-> jxDecode(jxEncode(v)) ])

\* codecJSONextended.decode of the text of a tree of arrays
JxDecode ==
    \E tree \in JxTrees :
       JxCall([ op |-> "jxDecode", tree |-> codecDecode(JsonText(tree)).v,
                text |-> JsonText(tree), out |-> jxDecode(JsonText(tree)) ])

NextJx == JxRoundTrip \/ JxDecode

SpecJx == InitJx /\ [][NextJx]_vars

\* ---------------------------------------------------------------- the grace period

\* the leewaySeconds options the engines are constructed with: negative,
\* zero, the default, the limit and values around it, huge, not a number,
\* with a fraction
LeewayChoices ==
    { Num(0 - 5), Num(0), Num(1), Num(29), Num(30), Num(31), Num(1000000), NaN,
      Frac(0, 5), Frac(30, 5) }

InitGrace ==
    /\ \E l1 \in LeewayChoices, l2 \in LeewayChoices :
          eng = (1 :> Constructor([DefaultOptions EXCEPT !.leewaySeconds = l1]))
                  @@ (2 :> Constructor([DefaultOptions EXCEPT !.leewaySeconds = l2,
                                                             !.errorOnExpired = TRUE]))
    /\ keys = [e \in Engines |-> ImportedKeys("SHA-256", Key1)]
    /\ boot = [e \in Engines |-> Built(Key1)]
    /\ ring = StringRing
    /\ mq = << >>
    /\ ops = {}
    /\ now = Epoch
    /\ ticks = 0
    /\ token = << >>
    /\ tk = NoToken
    /\ res = NoRes
    /\ dec = NoDec
    /\ FormatsRegistered
    /\ bufs = << >>
    /\ pure = NoPure
    /\ calls = << >>
    /\ hooks = BuiltinHooks

\* the lifetimes of the tokens that are kept beyond their expiry
GraceLifetimes ==
    {Life("createWith", Num(1)), Life("createWith", Num(30)), Life("createWith", Num(31))}

\* hwtr.createWith(arg, v) on engine 1
CreateGrace ==
    /\ tk.by = 0
    /\ ticks <= MaxIssueTicks
    /\ \E life \in GraceLifetimes : Issue(1, life, ValA, <<FALSE, VUndef>>)

NextGrace == CreateGrace \/ Tick \/ VerifyCall

SpecGrace == InitGrace /\ [][NextGrace]_vars

\* ---------------------------------------------------------------- calls in flight

\* at most this many calls of create, createWith, verify and decode
MaxFrameCalls == 3

\* the options of the engine the calls are made on
FrameOptions ==
    { DefaultOptions,
      [DefaultOptions EXCEPT !.errors = TRUE],
      [DefaultOptions EXCEPT !.format = FmtJX, !.signatureSize = Num(22)] }

InitFrame ==
    /\ \E o \in FrameOptions :
          /\ eng = [e \in Engines |-> Constructor(o)]
          /\ keys = [e \in Engines |-> ImportedKeys(Constructor(o).hash, Key1)]
    /\ boot = [e \in Engines |-> Built(Key1)]
    /\ ring = StringRing
    /\ mq = << >>
    /\ ops = {}
    /\ now = Epoch
    /\ ticks = 0
    /\ token = << >>
    /\ tk = NoToken
    /\ res = NoRes
    /\ dec = NoDec
    /\ FormatsRegistered
    /\ bufs = << >>
    /\ pure = NoPure
    /\ calls = << >>
    /\ hooks = BuiltinHooks

\* what a call gave: the token of create, the result of verify, the result
\* of decode
NoOut == [token |-> << >>, thrown |-> FALSE, r |-> Result0, d |-> Decoded0]

\* a call: stage tells a call that waits for crypto.subtle.sign from one
\* that has ended, obj names the result object the call made (0 for none),
\* at is the clock value it read
Call(op, stage, life, input, hid, obj, at, out) ==
    [ op |-> op, stage |-> stage, life |-> life, input |-> input, hasHidden |-> hid[1],
      h |-> hid[2], obj |-> obj, at |-> at, out |-> out ]

\* the object a shared result would be
allocate_shared(made) == 1

\* const result = {...}: an object that was not there before, the next one
\* after the made objects
allocate(made) == Cardinality(made) + 1

\* the result objects made so far
Made == {calls[i].obj : i \in 1..Len(calls)} \ {0}

\* hwtr.create(v) or hwtr.createWith(arg, v) up to the await in generate
StartCreate ==
    /\ Len(calls) < MaxFrameCalls
    /\ \E life \in {Life("create", Num(0)), Life("createWith", Num(1))} :
          calls' = Append(calls, Call(life.kind, "signing", life, [str |-> TRUE, text |-> << >>],
                                      <<FALSE, VUndef>>, 0, now, NoOut))
    /\ UNCHANGED <<eng, keys, now, ticks, token, tk, res, dec, registry, objs, rf, bufs, pure, hooks>>
    /\ UNCHANGED bootVars

\* what verify and decode are called with: a token a create call has
\* given, a string of too few fields, a value that is no string
FrameInputs ==
    {[str |-> TRUE, text |-> calls[i].out.token] :
        i \in {j \in 1..Len(calls) : /\ calls[j].op \in {"create", "createWith"}
                                      /\ calls[j].stage = "settled"
                                      /\ ~calls[j].out.thrown}}
      \cup {[str |-> TRUE, text |-> Join(<<Prefix, <<26>> >>)], [str |-> FALSE, text |-> << >>]}

\* hwtr.verify(input, h): it makes its result object, and returns or raises
\* at once when a check before the signature fails; otherwise it runs up to
\* the await in generate
StartVerify ==
    /\ Len(calls) < MaxFrameCalls
    /\ \E input \in FrameInputs, hid \in {<<FALSE, VUndef>>, <<TRUE, ValB>>} :
          LET r == verify(eng[1], keys[1], input, hid[1], hid[2], now)
              early == r.stage \in {"structure", "time", "codec", "key"}
          IN  calls' = Append(calls,
                  Call("verify", IF early THEN "settled" ELSE "signing", Life("none", Num(0)),
                       input, hid, allocate(Made), now,
                       IF early THEN [NoOut EXCEPT !.r = r, !.thrown = r.thrown] ELSE NoOut))
    /\ UNCHANGED <<eng, keys, now, ticks, token, tk, res, dec, registry, objs, rf, bufs, pure, hooks>>
    /\ UNCHANGED bootVars

\* hwtr.decode(input) for a string: it has no await
StartDecode ==
    /\ Len(calls) < MaxFrameCalls
    /\ \E input \in {x \in FrameInputs : x.str} :
          calls' = Append(calls,
                  Call("decode", "settled", Life("none", Num(0)), input, <<FALSE, VUndef>>,
                       allocate(Made), now, [NoOut EXCEPT !.d = decode(eng[1], input.text)]))
    /\ UNCHANGED <<eng, keys, now, ticks, token, tk, res, dec, registry, objs, rf, bufs, pure, hooks>>
    /\ UNCHANGED bootVars

\* the platform settles the crypto.subtle.sign of one of the waiting calls,
\* and that call runs to its end
SettleCall ==
    /\ \E i \in 1..Len(calls) :
          /\ calls[i].stage = "signing"
          /\ LET c == calls[i]
                 made == CreateToken(eng[1], keys[1], ExpOf(eng[1], c.life, c.at), ValA,
                                     c.hasHidden, c.h)
                 r == verify(eng[1], keys[1], c.input, c.hasHidden, c.h, c.at)
             IN  calls' = [calls EXCEPT ![i] =
                    [@ EXCEPT !.stage = "settled",
                              !.out = IF c.op = "verify"
                                      THEN [NoOut EXCEPT !.r = r, !.thrown = r.thrown]
                                      ELSE [NoOut EXCEPT !.token = made.token,
                                                         !.thrown = made.thrown]]]
    /\ UNCHANGED <<eng, keys, now, ticks, token, tk, res, dec, registry, objs, rf, bufs, pure, hooks>>
    /\ UNCHANGED bootVars

NextFrame == StartCreate \/ StartVerify \/ StartDecode \/ SettleCall

SpecFrame == InitFrame /\ [][NextFrame]_vars

\* ---------------------------------------------------------------- comparisons

\* the strings handed to timingSafeEqual: up to two of these characters
\* ('A', 'B', 'Q', '-', '+', '!'), and some of three and four
EqualChars == {0, 1, 16, 62, Plus, Bang}
EqualStrings ==
    {<< >>} \cup {<<c>> : c \in EqualChars} \cup {<<c, d>> : c \in EqualChars, d \in EqualChars}
      \cup {<<0, 16, 0>>, <<0, 16, 1>>, <<0, 16, 16>>, <<0, 16, 0, 0>>, <<0, 16, 0, 1>>,
            <<63, 63, 63, 63>>}

\* the byte sequences handed to it: up to two of these bytes, and some of three
EqualBytes ==
    {<< >>} \cup {<<x>> : x \in {0, 1, 255}} \cup {<<x, y>> : x \in {0, 1, 255}, y \in {0, 1, 255}}
      \cup {<<0, 16, 0>>, <<0, 16, 1>>, <<1, 16, 0>>, <<255, 255, 255>>}

EqualOperands ==
    {StringOperand(v) : v \in EqualStrings} \cup {BytesOperand(v) : v \in EqualBytes}

InitEqual ==
    /\ eng = [e \in Engines |-> Constructor(DefaultOptions)]
    /\ keys = [e \in Engines |-> ImportedKeys("SHA-256", Key1)]
    /\ boot = [e \in Engines |-> Built(Key1)]
    /\ ring = StringRing
    /\ mq = << >>
    /\ ops = {}
    /\ now = Epoch
    /\ ticks = 0
    /\ token = << >>
    /\ tk = NoToken
    /\ res = NoRes
    /\ dec = NoDec
    /\ FormatsRegistered
    /\ bufs = << >>
    /\ pure = NoPure
    /\ calls = << >>
    /\ hooks = BuiltinHooks

\* one call of a static helper, recorded with what it was given and what it gave
HelperCall(call) ==
    /\ pure = NoPure
    /\ pure' = call
    /\ UNCHANGED restVars
    /\ UNCHANGED bootVars

\* Hwtr.timingSafeEqual(expected, actual)
TimingSafeEqualCall ==
    \E expected \in EqualOperands, actual \in EqualOperands :
       HelperCall([ op |-> "timingSafeEqual", expected |-> expected, actual |-> actual,
                    out |-> timingSafeEqualOf(expected, actual).out,
                    steps |-> timingSafeEqualOf(expected, actual).steps ])

NextEqual == TimingSafeEqualCall

SpecEqual == InitEqual /\ [][NextEqual]_vars

\* ---------------------------------------------------------------- transcoding

\* the byte sequences that are encoded: up to four of these bytes
CodedBytes == {0, 63, 251, 255}
CodedBuffers ==
    {<< >>} \cup {<<w>> : w \in CodedBytes} \cup {<<w, x>> : w \in CodedBytes, x \in CodedBytes}
      \cup {<<w, x, y>> : w \in CodedBytes, x \in CodedBytes, y \in CodedBytes}
      \cup {<<w, x, y, 251>> : w \in CodedBytes, x \in CodedBytes, y \in CodedBytes}

\* what base64urlToUint8Array is handed: a string (those of the comparisons,
\* and some with '=', '/' and '.'), a Uint8Array, or a value that is neither
\* (a number, null, undefined, an object)
DecodeInputs ==
    {[kind |-> "string", v |-> v] :
        v \in EqualStrings \cup {<<16, 20, 8, Pad>>, <<16, 20, Pad, Pad>>, <<16, 20, 8>>,
                                 <<Slash, Slash, 60>>, <<63, 63, 60>>, <<16, Dot, 20, 8>>,
                                 <<16, Pad, 20, 8>>, <<0, 0, 0, 0, 0>>}}
      \cup {[kind |-> "bytes", v |-> <<1, 2, 3>>], [kind |-> "other", v |-> << >>]}

\* base64urlToUint8Array(x) for any x: a Uint8Array comes back as it is, and
\* a value with no replace method makes the try block throw, which the catch
\* answers with the empty array
base64urlToUint8ArrayOf(x) ==
    IF x.kind = "bytes" THEN [raised |-> FALSE, bytes |-> x.v]
    ELSE IF x.kind = "string" THEN [raised |-> FALSE, bytes |-> base64urlToUint8Array(x.v)]
    ELSE [raised |-> FALSE, bytes |-> emptyArray]

InitCoded ==
    /\ eng = [e \in Engines |-> Constructor(DefaultOptions)]
    /\ keys = [e \in Engines |-> ImportedKeys("SHA-256", Key1)]
    /\ boot = [e \in Engines |-> Built(Key1)]
    /\ ring = StringRing
    /\ mq = << >>
    /\ ops = {}
    /\ now = Epoch
    /\ ticks = 0
    /\ token = << >>
    /\ tk = NoToken
    /\ res = NoRes
    /\ dec = NoDec
    /\ FormatsRegistered
    /\ bufs = << >>
    /\ pure = NoPure
    /\ calls = << >>
    /\ hooks = BuiltinHooks

\* base64urlToUint8Array(bufferToBase64Url(buffer))
BufferToBase64UrlCall ==
    \E buffer \in CodedBuffers :
       HelperCall([ op |-> "bufferToBase64Url", buffer |-> buffer,
                    out |-> bufferToBase64Url(buffer),
                    back |-> base64urlToUint8Array(bufferToBase64Url(buffer)) ])

\* base64urlToUint8Array(input)
Base64urlToUint8ArrayCall ==
    \E input \in DecodeInputs :
       HelperCall([ op |-> "base64urlToUint8Array", input |-> input,
                    raised |-> base64urlToUint8ArrayOf(input).raised,
                    out |-> base64urlToUint8ArrayOf(input).bytes ])

NextCoded == BufferToBase64UrlCall \/ Base64urlToUint8ArrayCall

SpecCoded == InitCoded /\ [][NextCoded]_vars

\* ---------------------------------------------------------------- tokens with more in them

\* someone puts characters after the 'hwt' of an issued token's first field
ExtendPrefix ==
    /\ tk.by # 0 /\ ~tk.thrown /\ ~tk.cut /\ tk.altered = "none"
    /\ res.by = 0
    /\ \E more \in {<<23>>, <<52, 52>>} :
          token' = Join([Split(token) EXCEPT ![1] = @ \o more])
    /\ tk' = [tk EXCEPT !.altered = "prefix"]
    /\ res' = NoRes
    /\ UNCHANGED <<eng, keys, now, ticks>>
    /\ UNCHANGED otherVars
    /\ UNCHANGED bootVars

\* someone puts further fields after the payload field of an issued token
AppendField ==
    /\ tk.by # 0 /\ ~tk.thrown /\ ~tk.cut /\ tk.altered = "none"
    /\ res.by = 0
    /\ \E more \in {<< >>, <<23>>, <<23, Dot, 24>>} :
          token' = token \o <<Dot>> \o more
    /\ tk' = [tk EXCEPT !.altered = "appended"]
    /\ res' = NoRes
    /\ UNCHANGED <<eng, keys, now, ticks>>
    /\ UNCHANGED otherVars
    /\ UNCHANGED bootVars

NextCanon == CreateGrace \/ ExtendPrefix \/ AppendField \/ VerifyCall

SpecCanon == InitFrame /\ [][NextCanon]_vars

\* ---------------------------------------------------------------- cut tokens, kept

\* the options of the engine that cuts: the smallest size limit, with a
\* full signature, with a signature of 33 characters, with another hash and
\* codec
CutOptions ==
    { [DefaultOptions EXCEPT !.maxTokenSizeBytes = Num(512)],
      [DefaultOptions EXCEPT !.maxTokenSizeBytes = Num(512), !.signatureSize = Num(33)],
      [DefaultOptions EXCEPT !.maxTokenSizeBytes = Num(512), !.hash = "SHA-384",
                             !.format = FmtJX] }

\* engine 2 has the keys and options of engine 1, and the default size limit
InitCut ==
    /\ \E o \in CutOptions :
          /\ eng = (1 :> Constructor(o))
                     @@ (2 :> Constructor([o EXCEPT !.maxTokenSizeBytes = Num(2048)]))
          /\ keys = [e \in Engines |-> ImportedKeys(Constructor(o).hash, Key1)]
    /\ boot = [e \in Engines |-> Built(Key1)]
    /\ ring = StringRing
    /\ mq = << >>
    /\ ops = {}
    /\ now = Epoch
    /\ ticks = 0
    /\ token = << >>
    /\ tk = NoToken
    /\ res = NoRes
    /\ dec = NoDec
    /\ FormatsRegistered
    /\ bufs = << >>
    /\ pure = NoPure
    /\ calls = << >>
    /\ hooks = BuiltinHooks

\* the lengths of the long visible strings: with the size limit 512 and a
\* full SHA-256 signature the token for 317 characters is one too long
CutSizes == {317, 330, 400}

\* hwtr.create(v, h) or hwtr.createWith(1, v, h) on engine 1 with a long
\* string v
CreateCut ==
    /\ tk.by = 0
    /\ ticks <= MaxIssueTicks
    /\ \E n \in CutSizes, life \in {Life("create", Num(0)), Life("createWith", Num(1))},
          hid \in {<<FALSE, VUndef>>, <<TRUE, ValA>>} :
          Issue(1, life, Filler(n), hid)

\* the tokens are kept while the clock advances, and presented to either
\* engine
NextCut == CreateCut \/ Tick \/ VerifyCall

SpecCut == InitCut /\ [][NextCut]_vars

\* ---------------------------------------------------------------- encodings, one after the other

\* the program may have hooks of its own on BigInt, Set and Map
HookChoices ==
    { BuiltinHooks,
      [BuiltinHooks EXCEPT !["BigInt"] = "user"],
      [BuiltinHooks EXCEPT !["Set"] = "user", !["Map"] = "user"] }

InitHooks ==
    /\ eng = [e \in Engines |-> Constructor(DefaultOptions)]
    /\ keys = [e \in Engines |-> ImportedKeys("SHA-256", Key1)]
    /\ boot = [e \in Engines |-> Built(Key1)]
    /\ ring = StringRing
    /\ mq = << >>
    /\ ops = {}
    /\ now = Epoch
    /\ ticks = 0
    /\ token = << >>
    /\ tk = NoToken
    /\ res = NoRes
    /\ dec = NoDec
    /\ FormatsRegistered
    /\ bufs = << >>
    /\ pure = NoPure
    /\ calls = << >>
    /\ hooks \in HookChoices

\* the values that are encoded: JSON values, Dates, BigInts, Sets, typed
\* arrays, arrays of them, and cyclic values
HookValues ==
    { ValA, VNum(5), VNull, VDate(0), VDate(5), VDate(123), VBigInt(5),
      VArr(<<VDate(5), VNum(1)>>), VArr(<<VBigInt(2), VDate(0)>>),
      VArr(<<VArr(<<VDate(999)>>)>>),
      VCyclic, VArr(<<VDate(5), VCyclic>>), VArr(<<VArr(<<VCyclic>>), VBigInt(1)>>) }

\* the values the extended codec alone is given
JxOnlyValues ==
    { VSet(<<VNum(1), VDate(5)>>), VMap(<<VArr(<<VNum(1), VCyclic>>)>>),
      VTyped(1, <<VNum(1), VNum(2)>>), VBuffer(<<VNum(200)>>), VSet(<<VCyclic>>) }

\* one call of a codec's encode: what it was given and gave, what kind of
\* call came before it, and the hooks it leaves
EncodeCall(call, after) ==
    /\ pure' = call
    /\ hooks' = after
    /\ UNCHANGED <<eng, keys, now, ticks, token, tk, res, dec, registry, objs, rf, bufs, calls>>
    /\ UNCHANGED bootVars

\* what the next call remembers of the call before it
Before == IF pure = NoPure THEN "none"
          ELSE IF pure.raised THEN pure.op \o " raised" ELSE pure.op

\* codecJSONextended.encode(v)
JxEncodeCall ==
    \E v \in HookValues \cup JxOnlyValues :
       EncodeCall([ op |-> "jxEncode", v |-> v, prev |-> Before,
                    raised |-> jxEncodeUnder(hooks, v).raised,
                    text |-> jxEncodeUnder(hooks, v).text ],
                  hooksAfterEncode(hooks, v))

\* codecJSON.encode(v)
JEncodeCall ==
    \E v \in HookValues :
       EncodeCall([ op |-> "jEncode", v |-> v, prev |-> Before,
                    raised |-> codecEncodeUnder(hooks, v).raised,
                    text |-> codecEncodeUnder(hooks, v).text ],
                  hooks)

NextHooks == JxEncodeCall \/ JEncodeCall

SpecHooks == InitHooks /\ [][NextHooks]_vars

\* ---------------------------------------------------------------- what the claims speak of

\* a verify call has been made on the token and gave res.r
Verified == res.by # 0

\* the value JSON gives back for v: undefined inside an array comes back null
RECURSIVE AsJson(_)
AsJson(v) ==
    IF v.t = "undefined" THEN VNull
    ELSE IF v.t = "array" THEN VArr([i \in 1..Len(v.a) |-> AsJson(v.a[i])])
    ELSE v

\* the token in hand is the one create returned in full, never altered
Intact == tk.by # 0 /\ ~tk.thrown /\ ~tk.cut /\ tk.altered = "none"

\* the verify call was given the hidden input the token was created with
SameHidden == res.hasHidden = tk.hasHidden /\ res.h = tk.h

\* the signature the verifying engine computes for the token in hand and the
\* hidden input of the verify call
Recomputed ==
    LET parts == Split(token)
        E == eng[res.by]
    IN  generateSig(E, keys[res.by][parts[3]],
                    Join(verifyFields(parts[4], parts[5], parts[6], res.hasHidden,
                                      IF res.hasHidden
                                      THEN bufferToBase64Url(codecEncode(res.h))
                                      ELSE << >>)))

\* ---------------------------------------------------------------- C1

\* C1: verify answers ok only for a token whose signature field is, character
\* for character, the signature the verifying engine computes itself; a
\* token with one signature character changed is refused with
\* "hwt invalid signature".
C1_SignatureIsRecomputed ==
    /\ (Verified /\ res.r.ok) => Split(token)[2] = Recomputed
    /\ (Verified /\ tk.altered = "signature" /\ res.r.stage \in {"signature", "decoded", "decode"})
          => (~res.r.ok /\ res.r.error = "hwt invalid signature")

\* ---------------------------------------------------------------- C2

\* C2: a token whose payload field was changed after signing never verifies.
C2_AlteredPayloadRefused ==
    (Verified /\ tk.altered = "payload") => ~res.r.ok

\* ---------------------------------------------------------------- C3

\* C3: a token created with hidden input h verifies on the issuing engine
\* with h, giving back the visible value, and is refused without a hidden
\* input and with any other hidden input.
C3_HiddenBinding ==
    (Verified /\ Intact /\ tk.hasHidden /\ res.by = tk.by /\ tk.v # VUndef)
       => IF SameHidden
          THEN res.r.ok /\ res.r.data = AsJson(tk.v)
          ELSE ~res.r.ok

\* ---------------------------------------------------------------- C4

\* str holds sub as a run of consecutive characters
Contains(str, sub) ==
    \E i \in 0..(Len(str) - Len(sub)) : SubSeq(str, i + 1, i + Len(sub)) = sub

\* create has just returned the token in hand
JustIssued == tk.by # 0 /\ ~tk.thrown /\ tk.altered = "none" /\ res.by = 0

\* the token the issuing engine gives for the same exp and visible value with
\* the hidden input hid
TokenWith(hid) ==
    CreateToken(eng[tk.by], keys[tk.by], Number(tk.exp, tk.expf), tk.v, hid[1], hid[2]).token

Presented ==
    /\ Verified /\ Intact /\ SameHidden /\ tk.v # VUndef
    /\ eng[res.by].signatureSize = eng[tk.by].signatureSize

\* C5: with exp the token's expiry, L the verifying engine's leeway and now
\* the clock at the verify call: now < exp gives ok, not expired, validTime;
\* exp <= now <= exp + L gives ok, expired, withinLeeway, validTime;
\* now > exp + L gives not ok, expired, not withinLeeway, not validTime and
\* the error "hwt expired" (thrown when the engine has errorOnExpired).
C5_ExpiryBoundaries ==
    Presented =>
       LET r == res.r
           L == eng[res.by].leewaySeconds
       IN  /\ res.at < tk.exp
                => r.ok /\ ~r.expired /\ r.validTime /\ ~r.thrown
           /\ (tk.exp <= res.at /\ res.at <= tk.exp + L)
                => r.ok /\ r.expired /\ r.withinLeeway /\ r.validTime /\ ~r.thrown
           /\ res.at > tk.exp + L
                => /\ ~r.ok /\ r.expired /\ ~r.withinLeeway /\ ~r.validTime
                   /\ r.error = "hwt expired"
                   /\ r.thrown = eng[res.by].errorOnExpired
           /\ r.expires = tk.exp

\* a verify call at the last second of the leeway
C5_Witness ==
    /\ Presented /\ eng[res.by].leewaySeconds >= 1
    /\ res.at = tk.exp + eng[res.by].leewaySeconds
    /\ res.r.ok /\ res.r.expired /\ res.r.withinLeeway

\* ---------------------------------------------------------------- C6

KeyIdOf(str) == Split(str)[3]

\* C7: create signs with the engine's current key and puts its id in the
\* token; a token as issued verifies ok on every engine whose keyring holds
\* the signing key, whichever key is current there, because verify signs
\* with the key the token names.
C7_KeyRotation ==
    /\ Intact =>
          LET cur == keys[tk.by][CurrentId]
              E == eng[tk.by]
              item == bufferToBase64Url(codecEncode(tk.v))
              itemHidden == bufferToBase64Url(codecEncode(tk.h))
          IN  /\ KeyIdOf(token) = cur.id
              /\ Split(token)[2] =
                    generateSig(E, cur, Join(signedFields(ToDecimal(tk.exp), E.format, item,
                                                          tk.hasHidden, itemHidden)))
    /\ (Presented /\ res.at < tk.exp /\ KeyIdOf(token) \in DOMAIN keys[res.by])
          => res.r.ok /\ Split(token)[2] = Recomputed

\* a token signed with a key that is not the current one of the engine that
\* verifies it
C7_Witness ==
    /\ Presented /\ res.r.ok
    /\ keys[res.by][CurrentId].id # KeyIdOf(token)
    /\ KeyIdOf(token) \in DOMAIN keys[res.by]
    /\ eng[res.by].signatureSize % 4 # 1

\* ---------------------------------------------------------------- C10

RingWhole ==
    /\ Len(ring.keys) > 0
    /\ \A i \in 1..Len(ring.keys) : importKey(ring.keys[i]) = "pending"

\* C8: two engines built one after the other from one keyring specification
\* whose entries are all importable, with string or raw-buffer secrets, each
\* accept the tokens the other issued.
C8_CrossEngine ==
    (Presented /\ RingWhole /\ res.at < tk.exp) => res.r.ok

\* ---------------------------------------------------------------- C9

\* C9: once the promise of Hwtr.factory has resolved for an engine, its
\* importKeys has returned: the keyring holds every importable key of the
\* specification and a current key, and a create that follows gives a token.
C9_ReadyMeansImported ==
    /\ \A e \in Engines :
          boot[e].caller = "ready" =>
             /\ boot[e].ik = "done"
             /\ CurrentId \in DOMAIN keys[e]
             /\ \A i \in 1..Len(ring.keys) :
                   importKey(ring.keys[i]) = "pending" => ring.keys[i].id \in DOMAIN keys[e]
    /\ tk.by # 0 => ~tk.thrown

\* ---------------------------------------------------------------- C11

\* the token in hand was put together field by field: six fields
Crafted == tk.by # 0 /\ tk.altered = "crafted"

\* the fields of the token in hand
PrefixOf(str) == Split(str)[1]
FormatOf(str) == Split(str)[5]
PayloadOf(str) == Split(str)[6]

\* C11: on an engine constructed without options verify raises for no
\* input: every failure comes back as a result with ok false and an error.
C11_DefaultNeverThrows ==
    (Verified /\ eng[res.by] = Constructor(DefaultOptions))
       => /\ ~res.r.thrown
          /\ ~res.r.ok => res.r.error # ""

\* ---------------------------------------------------------------- C12

\* the ids of the keys the engines imported
ImportedIds == {ring.keys[i].id : i \in 1..Len(ring.keys)}

\* the verify call got a token of six fields with the right prefix that is
\* not expired beyond the leeway of the engine
PastTime ==
    /\ Verified /\ Crafted /\ PrefixOf(token) = Prefix
    /\ (tk.exp > res.at \/ res.at - tk.exp <= eng[res.by].leewaySeconds)

\* the format field names a registered codec, or is empty
KnownFormat(str) == FormatOf(str) = << >> \/ FormatOf(str) \in codecs

\* C12: a structural failure, an unknown key and a signature mismatch raise
\* exactly when errorOnInvalid is set, an expiry beyond the leeway exactly
\* when errorOnExpired is set, an unknown format exactly when errorOnEncoding
\* is set, each with its own message; a token within the leeway raises no
\* expiry; nothing raises without its flag; errors: true sets all three.
C12_StrictFlags ==
    /\ Verified =>
          LET r == res.r
              E == eng[res.by]
          IN  /\ r.error \in {"hwt invalid", "hwt invalid format", "hwt unknown key",
                              "hwt invalid signature"} => r.thrown = E.errorOnInvalid
              /\ r.error = "hwt expired" => r.thrown = E.errorOnExpired
              /\ r.error \in {"hwt unknown encoding", "hwt data encoding failed"}
                    => r.thrown = E.errorOnEncoding
              /\ (r.expired /\ r.withinLeeway) => r.error # "hwt expired"
              /\ r.thrown => r.error \in {"hwt invalid", "hwt invalid format",
                                          "hwt unknown key", "hwt invalid signature",
                                          "hwt expired", "hwt unknown encoding",
                                          "hwt data encoding failed"}
              /\ (PastTime /\ KnownFormat(token) /\ KeyIdOf(token) \notin ImportedIds)
                    => r.error = "hwt unknown key"
    /\ LET all == Constructor([DefaultOptions EXCEPT !.errors = TRUE])
       IN  all.errorOnInvalid /\ all.errorOnExpired /\ all.errorOnEncoding

\* ---------------------------------------------------------------- C13

\* C13: verify of a token whose format field is not empty and names no
\* registered codec fails with "hwt unknown encoding" and the name, and
\* gives no data; a token with an empty format field is decoded with the
\* default codec of the engine.
C13_NoCodecFallback ==
    /\ (PastTime /\ FormatOf(token) # << >> /\ FormatOf(token) \notin codecs)
          => /\ ~res.r.ok /\ res.r.data = VNull
             /\ res.r.error = "hwt unknown encoding" /\ res.r.arg = FormatOf(token)
    /\ (PastTime /\ FormatOf(token) = << >> /\ res.r.ok)
          => res.r.data = codecDecode(base64urlToUint8Array(PayloadOf(token))).v

\* ---------------------------------------------------------------- C14

\* C14: verify of a well-formed, unexpired token of a known format whose key
\* id is the id of no imported key gives ok false and "hwt unknown key",
\* raised exactly under errorOnInvalid, and goes no further than the lookup.
C14_UnknownKey ==
    (PastTime /\ tk.exp > res.at /\ KnownFormat(token) /\ KeyIdOf(token) \notin ImportedIds)
       => /\ ~res.r.ok
          /\ res.r.error = "hwt unknown key"
          /\ res.r.thrown = eng[res.by].errorOnInvalid
          /\ res.r.stage = "key"

\* ---------------------------------------------------------------- C15

\* a decode call has been made on the token in hand and gave dec.r
Decoded == dec.by # 0

\* the token in hand with other first three fields
WithHead(prefix, sig, kid) ==
    LET parts == Split(token)
    IN  Join(<<prefix, sig, kid>> \o SubSeq(parts, 4, Len(parts)))

C16_DecodeErrors ==
    /\ (Decoded /\ Crafted /\ FormatOf(token) # << >> /\ FormatOf(token) \notin codecs)
          => /\ dec.r.data = VNull /\ ~dec.r.thrown
             /\ dec.r.error = "hwt unknown encoding" /\ dec.r.arg = FormatOf(token)
    /\ (Decoded /\ Len(Split(token)) < 6)
          => dec.r.data = VNull /\ dec.r.error # "" /\ ~dec.r.thrown

\* ---------------------------------------------------------------- C17

\* a registration of the name has succeeded
Registered(n) == rf.first[n] # Undefined

\* the methods of a codec
Members(c) == <<c.encode, c.decode>>

C18_Validation ==
    rf.n > 0 =>
       LET missing == ~IsFunction(rf.codec.encode) \/ ~IsFunction(rf.codec.decode)
           firstJ == rf.name = FmtJ /\ rf.prev[FmtJ].t # "codec"
           badName == ~namePattern(rf.name) /\ ~firstJ
           fresh == rf.prev[rf.name].t # "codec"
       IN  /\ (fresh /\ (missing \/ badName)) => rf.out = "thrown"
           /\ rf.out # "this"
                 => registry = rf.prev /\ formats(registry) = formats(rf.prev)
           /\ (firstJ /\ ~missing) => rf.out = "this" /\ registry[FmtJ].t = "codec"

\* ---------------------------------------------------------------- C19

\* what importKey refuses: an empty id, an id with a '.', a secret of fewer
\* than 32 bytes
Refused(key) == key.id = << >> \/ aDot(key.id) \/ Len(key.secret) < 32

AllZero(buffer) == \A i \in 1..Len(buffer) : buffer[i] = 0

\* C20: the buffer an importKey call or a generate call made is all zero
\* once the call has settled, however it ended.
C20_Scrubbed ==
    \A i \in 1..Len(bufs) :
       (bufs[i].made /\ bufs[i].stage = "settled") => AllZero(bufs[i].bytes)

\* ---------------------------------------------------------------- C21

\* C21: every key generateKey and generateKeys return has a secret of 32
\* bytes or characters or more, whatever secret was supplied; no id
\* generateKeys returns has a '.'; the current it returns is the id of one of
\* the keys it returns.
C21_GeneratedKeys ==
    /\ pure.op = "generateKey" => Len(pure.out.secret) >= 32
    /\ pure.op = "generateKeys" =>
          LET ks == pure.out.keys
          IN  /\ \A i \in 1..Len(ks) : Len(ks[i].secret) >= 32 /\ ~aDot(ks[i].id)
              /\ \E i \in 1..Len(ks) : ks[i].id = pure.out.current

\* ---------------------------------------------------------------- C22

\* x clamped to [1, 31557600]
ClampLife(x) ==
    IF x.n < 1 THEN Number(1, 0)
    ELSE IF x.n > 31557600 \/ (x.n = 31557600 /\ x.f > 0) THEN Number(31557600, 0)
    ELSE Number(x.n, x.f)

\* the exp the token in hand was created with
ExpIssued == Number(tk.exp, tk.expf)

\* the clock value plus the lifetime x
After(t, x) == Number(t + x.n, x.f)

\* the lifetime the issuing engine is configured with
Configured == Number(eng[tk.by].expiresInSeconds, eng[tk.by].expiresTenths)

\* C22: the exp of a token of createWith is the clock value plus the given
\* lifetime clamped to [1, 31557600]; when the given lifetime is not a number
\* it is the clock value plus the configured expiresInSeconds; the exp of a
\* token of create is the clock value plus the configured expiresInSeconds.
C22_Lifetime ==
    (tk.by # 0 /\ tk.altered = "none") =>
       /\ tk.life.kind = "create" => ExpIssued = After(tk.at, Configured)
       /\ (tk.life.kind = "createWith" /\ ~tk.life.arg.nan)
             => ExpIssued = After(tk.at, ClampLife(tk.life.arg))
       /\ (tk.life.kind = "createWith" /\ tk.life.arg.nan)
             => ExpIssued = After(tk.at, Configured)
       /\ tk.life.kind = "createWithUndefined" => ExpIssued = After(tk.at, Configured)

\* ---------------------------------------------------------------- C24

\* text of base64url characters
IsBase64Url(str) == \A i \in 1..Len(str) : str[i] \in 0..63

\* C24: a token create or createWith returns whole splits on '.' into six
\* fields: 'hwt', a base64url signature, the id of the current key, exp as
\* digits, the format name of the engine, a base64url payload.
C24_WireFormat ==
    Intact =>
       LET parts == Split(token)
       IN  /\ Len(parts) = 6
           /\ parts[1] = Prefix
           /\ parts[2] # << >> /\ IsBase64Url(parts[2])
           /\ parts[3] = keys[tk.by][CurrentId].id
           /\ IsDigits(parts[4]) /\ DecimalValue(parts[4]) = tk.exp
           /\ parts[5] = eng[tk.by].format
           /\ IsBase64Url(parts[6])

\* ---------------------------------------------------------------- C23

\* the length the claim gives the signature of an engine built with options
\* o: the full length for signatureSize 0 (and for what is no number), else
\* signatureSize clamped into [min, max] of the hash, in whole characters
SignatureLength(o) ==
    LET row == SupportRow(o.hash)
        x == o.signatureSize
    IN  IF x.nan \/ x = Num(0) THEN row[3]
        ELSE IF x.n < row[2] THEN row[2]
        ELSE IF x.n > row[3] THEN row[3]
        ELSE x.n

C25_RoundTrip ==
    pure.op = "jx" => pure.out.ok /\ pure.out.v = pure.v

\* ---------------------------------------------------------------- C26

\* the discriminators and the type each stands for
KnownTypes == {1, 2, 3, 4, 7, 8}
TypeName(d) ==
    CASE d = 1 -> "date" [] d = 2 -> "bigint" [] d = 3 -> "set"
      [] d = 4 -> "map" [] d = 7 -> "typed" [] d = 8 -> "buffer"

\* an array of the parsed text that starts with the sentinel and a known
\* discriminator
Tagged(v) ==
    /\ v.t = "array" /\ Len(v.a) >= 2
    /\ v.a[1] = VNum(Sentinel)
    /\ v.a[2].t = "number" /\ v.a[2].n \in KnownTypes

RECURSIVE Replaced(_, _)
\* out is the parsed tree with every tagged array replaced by a value of
\* its type and everything else as it was
Replaced(tree, out) ==
    IF Tagged(tree) THEN out.t = TypeName(tree.a[2].n)
    ELSE IF tree.t = "array"
    THEN /\ out.t = "array" /\ Len(out.a) = Len(tree.a)
         /\ \A i \in 1..Len(tree.a) : Replaced(tree.a[i], out.a[i])
    ELSE out = tree

\* C26: decoding replaces every array of the parsed text that starts with
\* the sentinel -7 and a known discriminator (1, 2, 3, 4, 7, 8) by the value
\* of the corresponding type, and returns every other array, one that starts
\* with -7 and an unknown discriminator included, as an ordinary array with
\* the same elements.
C26_TagHandling ==
    pure.op = "jxDecode" => pure.out.ok /\ Replaced(pure.tree, pure.out.v)

\* ---------------------------------------------------------------- C27

\* a tagged numeric array of the parsed text
NumericTag(v) == Tagged(v) /\ v.a[2].n = 7

\* the code of a tagged numeric array, revived as the reviver finds it
CodeOf(v) == IF Len(v.a) >= 3 THEN Revive(v.a[3]) ELSE VUndef

\* the element type the claim gives a code: the code itself when it is a
\* number of the enumeration, Uint8Array (1) for every other value
ElementType(code) ==
    IF code.t = "number" /\ code.n \in 0..11 THEN code.n ELSE 1

\* C27: decoding [-7, 7, code, elements] invokes the typed array constructor
\* of the enumerated element type when code is one of the enumeration, and
\* Uint8Array for every other code of whatever type; what it returns is a
\* typed array of that element type.
C27_NumericCodes ==
    pure.op = "jxDecode" /\ NumericTag(pure.tree) /\ CodeOf(pure.tree).t # "throw" =>
        /\ constructorFor(CodeOf(pure.tree)) =
               [kind |-> "typed", code |-> ElementType(CodeOf(pure.tree)), name |-> << >>]
        /\ pure.out.ok =>
               /\ pure.out.v.t = "typed"
               /\ pure.out.v.n = ElementType(CodeOf(pure.tree))

\* ---------------------------------------------------------------- C28

\* the codec the verify call looks up for the token in hand
CodecOf(str) ==
    codecFor(IF FormatOf(str) = << >> THEN eng[res.by].format ELSE FormatOf(str))

\* the verify call got as far as the signature comparison and the signature
\* field of the token passed it
SignatureAccepted ==
    /\ PastTime
    /\ CodecOf(token) # "none" /\ ~(CodecOf(token) = "inherited" /\ res.hasHidden)
    /\ KeyIdOf(token) \in DOMAIN keys[res.by]
    /\ timingSafeEqual(Split(token)[2], Recomputed)

\* the codec cannot decode the payload field of the token
Undecodable(str) ==
    \/ CodecOf(str) # "codec"
    \/ ~codecDecode(base64urlToUint8Array(PayloadOf(str))).ok

\* C28: when the signature comparison succeeds and the codec cannot decode
\* the payload bytes, verify returns (it does not raise) ok false, data null
\* and the error "hwt data decoding failed"; it never answers ok for a token
\* whose payload the codec cannot decode.
C28_DecodeFailure ==
    /\ (SignatureAccepted /\ Undecodable(token))
          => /\ ~res.r.ok /\ res.r.data = VNull /\ ~res.r.thrown
             /\ res.r.error = "hwt data decoding failed"
    /\ (Verified /\ Crafted /\ PrefixOf(token) = Prefix /\ res.r.ok)
          => ~Undecodable(token)

\* a signed token with an undecodable payload has been verified on an
\* engine that raises for everything it can raise for
C28_Witness ==
    /\ SignatureAccepted /\ Undecodable(token)
    /\ CodecOf(token) = "codec"
    /\ eng[res.by].errorOnInvalid /\ eng[res.by].errorOnEncoding
    /\ res.r.error = "hwt data decoding failed"

\* ---------------------------------------------------------------- C29

\* the first stage at which the input of the verify call fails, by what the
\* stages are to check: the structure, the expiry, the format among the
\* registered codecs, the key id among the imported keys, the signature,
\* the payload; "decoded" when none fails
FirstFailing ==
    IF ~Crafted \/ PrefixOf(token) # Prefix THEN "structure"
    ELSE IF ~PastTime THEN "time"
    ELSE IF ~KnownFormat(token) THEN "codec"
    ELSE IF KeyIdOf(token) \notin ImportedIds THEN "key"
    ELSE IF ~timingSafeEqual(Split(token)[2], Recomputed) THEN "signature"
    ELSE IF Undecodable(token) THEN "decode"
    ELSE "decoded"

\* the errors of a stage
StageErrors(stage) ==
    CASE stage = "structure" -> {"hwt invalid", "hwt invalid format"}
      [] stage = "time" -> {"hwt expired"}
      [] stage = "codec" -> {"hwt unknown encoding"}
      [] stage = "key" -> {"hwt unknown key"}
      [] stage = "signature" -> {"hwt invalid signature"}
      [] stage = "decode" -> {"hwt data decoding failed"}
      [] stage = "decoded" -> {""}

\* C29: verify checks the structure, then the expiry, then the codec, then
\* the key, then the signature, then decodes the payload; it reports the
\* error of the first stage that fails and goes no further than that stage.
C29_StageOrder ==
    Verified =>
        /\ res.r.error \in StageErrors(FirstFailing)
        /\ res.r.stage = FirstFailing
        /\ res.r.ok <=> FirstFailing = "decoded"

\* ---------------------------------------------------------------- C30

\* the keyring of engine e is complete: importKeys has returned
Initialised(e) == boot[e].ik = "done"

\* C30: once an engine is initialised, from whatever keyring specification
\* (ids that occur twice and the id 'current' included), its current key is
\* the key its keyring holds under that key's own id, and a token it created
\* verifies on it, with the hidden input it was created with and before its
\* expiry.
C30_KeyringConsistent ==
    /\ \A e \in Engines :
          Initialised(e) =>
             /\ CurrentId \in DOMAIN keys[e]
             /\ keys[e][CurrentId].id \in DOMAIN keys[e]
             /\ keys[e][keys[e][CurrentId].id] = keys[e][CurrentId]
    /\ (Presented /\ res.by = tk.by /\ Initialised(tk.by) /\ res.at < tk.exp) => res.r.ok

\* ---------------------------------------------------------------- C31

\* entry i of the keyring specification is one importKey imports
Imported(i) == importKey(ring.keys[i]) = "pending"

\* key is what entry i of the keyring specification was imported as
IsEntry(key, i) ==
    /\ key.id = ring.keys[i].id
    /\ ring.keys[i].kind = "string" => key.secret = ring.keys[i].secret

\* C31: importKeys adds every importable entry to the keyring whether or not
\* other entries fail; the current key is the imported entry with the
\* requested current id when there is one, and otherwise the first imported
\* entry in the order of the list, in whatever order the imports complete.
C31_CurrentSelection ==
    \A e \in Engines :
       (Initialised(e) /\ \E i \in 1..Len(ring.keys) : Imported(i)) =>
          /\ \A i \in 1..Len(ring.keys) : Imported(i) => ring.keys[i].id \in DOMAIN keys[e]
          /\ CurrentId \in DOMAIN keys[e]
          /\ LET named == {i \in 1..Len(ring.keys) :
                             Imported(i) /\ ring.keys[i].id = boot[e].want}
                 first == CHOOSE i \in 1..Len(ring.keys) :
                             Imported(i) /\ \A j \in 1..(i - 1) : ~Imported(j)
             IN  IF named # {} THEN \E i \in named : IsEntry(keys[e][CurrentId], i)
                 ELSE IsEntry(keys[e][CurrentId], first)

\* ---------------------------------------------------------------- C32

Returned == {i \in 1..Len(calls) : /\ calls[i].op = "verify" /\ calls[i].stage = "settled"
                                   /\ ~calls[i].out.thrown}

\* C33: no step of a create, createWith, verify or decode call, however
\* many are made and however they interleave on one engine, changes the
\* engine's keyring, its current key, its configured options or the codec
\* registry; and no two verify calls return the same result object.
C33_Frame ==
    /\ [][UNCHANGED <<eng, keys, registry, objs>>]_vars
    /\ [](\A i \in Returned : \A j \in Returned : i # j => calls[i].obj # calls[j].obj)

\* a create call and two verify calls of its token have ended, both with ok
C33_Witness ==
    /\ Len(calls) = 3
    /\ calls[1].op = "create" /\ calls[2].op = "verify" /\ calls[3].op = "verify"
    /\ Returned = {2, 3}
    /\ calls[2].out.r.ok /\ calls[3].out.r.ok
    /\ calls[2].obj # calls[3].obj

\* ---------------------------------------------------------------- C34

Compared == pure # NoPure /\ pure.op = "timingSafeEqual"

\* C34: timingSafeEqual, its operands taken as bytes (a string as what it
\* decodes to as base64url), answers true exactly when the two byte
\* sequences have the same length and the same bytes, so that a string equals
\* the bytes it decodes to; and the number of byte pairs it goes through is
\* the common length when the lengths are equal and none otherwise, whatever
\* the bytes are and wherever they first differ.
C34_TimingSafeEqual ==
    Compared =>
       LET a == Operand(pure.expected)
           b == Operand(pure.actual)
       IN  /\ pure.out <=> a = b
           /\ pure.steps = IF Len(a) = Len(b) THEN Len(a) ELSE 0
           /\ (pure.expected.str /\ pure.actual = BytesOperand(a)) => pure.out

\* two sequences of three bytes that differ in the first byte have been
\* compared, one of them given as a string
C34_Witness ==
    /\ Compared
    /\ pure.expected.str /\ ~pure.actual.str
    /\ Len(Operand(pure.expected)) = 3 /\ Len(pure.actual.v) = 3
    /\ Operand(pure.expected)[1] # pure.actual.v[1]
    /\ ~pure.out /\ pure.steps = 3

\* ---------------------------------------------------------------- C35

\* a string that no bufferToBase64Url call gives: a character outside
\* A-Z a-z 0-9 - _, or a length that no number of bytes encodes to
Malformed(str) ==
    \/ \E i \in 1..Len(str) : str[i] \notin 0..63
    \/ Len(str) % 4 = 1

\* C35: bufferToBase64Url gives only characters of A-Z a-z 0-9 - _ (no '=');
\* decoding what it gave returns the bytes it was given; and
\* base64urlToUint8Array raises for nothing, and returns the empty array for
\* a string with a character outside that alphabet, for a string of
\* impossible length and for a value that is neither a string nor bytes.
C35_Transcoding ==
    /\ (pure # NoPure /\ pure.op = "bufferToBase64Url") =>
          /\ \A i \in 1..Len(pure.out) : pure.out[i] \in 0..63
          /\ pure.back = pure.buffer
    /\ (pure # NoPure /\ pure.op = "base64urlToUint8Array") =>
          /\ ~pure.raised
          /\ (pure.input.kind = "other" \/ (pure.input.kind = "string" /\ Malformed(pure.input.v)))
                => pure.out = emptyArray

\* ---------------------------------------------------------------- C36

\* C36: a string verify answers ok for has exactly six fields, the first
\* of them exactly 'hwt'; an issued token whose first field was extended, or
\* that was given further fields, does not verify.
C36_Canonical ==
    (res.by # 0 /\ res.r.ok) =>
        /\ Len(Split(token)) = 6
        /\ Split(token)[1] = Prefix
        /\ tk.altered \notin {"prefix", "appended"}

\* ---------------------------------------------------------------- C37

\* the verify call returned a result (it raised nothing)
ResultReturned == res.by # 0 /\ ~res.r.thrown

CutPresented == res.by # 0 /\ tk.by # 0 /\ tk.cut

C39_HooksRestored ==
    /\ [][hooks' = hooks]_vars
    /\ [](hooks["Date"] = "native")
    /\ []((pure # NoPure /\ pure.op = "jEncode" /\ pure.v.t = "date") =>
             /\ ~pure.raised
             /\ pure.text = <<34>> \o IsoText(pure.v.n) \o <<34>>)

\* the plain codec has encoded a Date right after an encode of the
\* extended codec raised, in a program with a hook of its own
C39_Witness ==
    /\ pure # NoPure /\ pure.op = "jEncode" /\ pure.v = VDate(5)
    /\ pure.prev = "jxEncode raised"
    /\ hooks["BigInt"] = "user"
    /\ pure.text = <<34>> \o IsoText(5) \o <<34>>

====
